---- MODULE Spec2Model ----
(***************************************************************************)
(* A model of the Cognitive Dialogue Engine: runEngine                     *)
(* (src/lib/engine/runEngine.ts), the /api/reframe POST handler            *)
(* (src/app/api/reframe/route.ts), and the persistence path that feeds a   *)
(* session's outputs back into the next request (api/messages POST and the *)
(* session GET/PUT handlers).                                              *)
(*                                                                         *)
(* Texts are TLA+ strings and the string functions of the code are         *)
(* computed character by character.  Two characters of the source that a   *)
(* TLA+ string cannot hold are written in ASCII: U+2019 (the typographic   *)
(* apostrophe) is "^" and U+2014 (the em dash) is "--".                    *)
(* Numbers with fractions are scaled: confidences and the distortion       *)
(* likelihood are in hundredths, the arousal score is in sixtieths.        *)
(***************************************************************************)
EXTENDS Integers, Sequences, FiniteSets, TLC

VARIABLES
    pfn,        \* SpecPure: the pure function applied ("" before it is applied)
    pin,        \* SpecPure: its input record
    pout,       \* SpecPure: its result
    session,    \* the persisted session: its message rows and engine columns
    entry,      \* the engine behind the session: "runEngine" or "POST"
    pc,         \* where the request in flight stands
    req,        \* the request: userMessage, conversationHistory, sessionContext
    loc,        \* the handler's local variables
    calls,      \* the callAI invocations of the request, in order, with what each resolved to
    returned    \* what the handler returned

pureVars == <<pfn, pin, pout>>
sessionVars == <<session, entry, pc, req, loc, calls, returned>>
vars == <<pfn, pin, pout, session, entry, pc, req, loc, calls, returned>>

-----------------------------------------------------------------------------
(* JavaScript string primitives.                                           *)

\* the value of an absent (undefined) string field
Undefined == "<undefined>"

Ch(s, i) == SubSeq(s, i, i)

UpperCase == {"A","B","C","D","E","F","G","H","I","J","K","L","M",
              "N","O","P","Q","R","S","T","U","V","W","X","Y","Z"}

LowerOf(c) ==
    CASE c = "A" -> "a" [] c = "B" -> "b" [] c = "C" -> "c" [] c = "D" -> "d"
      [] c = "E" -> "e" [] c = "F" -> "f" [] c = "G" -> "g" [] c = "H" -> "h"
      [] c = "I" -> "i" [] c = "J" -> "j" [] c = "K" -> "k" [] c = "L" -> "l"
      [] c = "M" -> "m" [] c = "N" -> "n" [] c = "O" -> "o" [] c = "P" -> "p"
      [] c = "Q" -> "q" [] c = "R" -> "r" [] c = "S" -> "s" [] c = "T" -> "t"
      [] c = "U" -> "u" [] c = "V" -> "v" [] c = "W" -> "w" [] c = "X" -> "x"
      [] c = "Y" -> "y" [] c = "Z" -> "z" [] OTHER -> c

RECURSIVE LowerRange(_, _, _)
\* the characters lo..hi of s in lower case (halving keeps the nesting shallow)
LowerRange(s, lo, hi) ==
    IF lo > hi THEN ""
    ELSE IF lo = hi THEN LowerOf(Ch(s, lo))
    ELSE LET mid == (lo + hi) \div 2
         IN  LowerRange(s, lo, mid) \o LowerRange(s, mid + 1, hi)

\* String.prototype.toLowerCase
toLowerCase(s) == LowerRange(s, 1, Len(s))

\* the regular expression class \s
IsSpace(c) == c \in {" ", "\t", "\n", "\r"}

\* the regular expression class \w
IsWordChar(c) ==
    c \in UpperCase \cup
          {"a","b","c","d","e","f","g","h","i","j","k","l","m",
           "n","o","p","q","r","s","t","u","v","w","x","y","z",
           "0","1","2","3","4","5","6","7","8","9","_"}

RECURSIVE SkipSpaces(_, _)
\* the first index >= i of s that holds no white space (Len(s)+1 when none)
SkipSpaces(s, i) ==
    IF i <= Len(s) /\ IsSpace(Ch(s, i)) THEN SkipSpaces(s, i + 1) ELSE i

RECURSIVE LastNonSpace(_, _)
LastNonSpace(s, i) ==
    IF i >= 1 /\ IsSpace(Ch(s, i)) THEN LastNonSpace(s, i - 1) ELSE i

\* String.prototype.trim
trim(s) == SubSeq(s, SkipSpaces(s, 1), LastNonSpace(s, Len(s)))

RECURSIVE CollapseRange(_, _, _)
\* the characters lo..hi of s, each run of white space replaced by one blank
CollapseRange(s, lo, hi) ==
    IF lo > hi THEN ""
    ELSE IF lo = hi THEN
        IF ~IsSpace(Ch(s, lo)) THEN Ch(s, lo)
        ELSE IF lo > 1 /\ IsSpace(Ch(s, lo - 1)) THEN ""
        ELSE " "
    ELSE LET mid == (lo + hi) \div 2
         IN  CollapseRange(s, lo, mid) \o CollapseRange(s, mid + 1, hi)

\* s.replace(/\s+/g, ' ')
collapseWhitespace(s) == CollapseRange(s, 1, Len(s))

\* whether p occurs in s at index i
MatchAt(s, i, p) ==
    /\ i >= 1
    /\ i + Len(p) - 1 <= Len(s)
    /\ SubSeq(s, i, i + Len(p) - 1) = p

\* String.prototype.includes
includes(s, p) == \E i \in 1..(Len(s) - Len(p) + 1) : MatchAt(s, i, p)

startsWith(s, p) == MatchAt(s, 1, p)

endsWith(s, p) == MatchAt(s, Len(s) - Len(p) + 1, p)

\* array.some(p => s.includes(p)) over a list of phrases
includesAny(s, phrases) == \E k \in 1..Len(phrases) : includes(s, phrases[k])

\* the number of phrases of the list that occur in s
CountIncluded(s, phrases) ==
    Cardinality({k \in 1..Len(phrases) : includes(s, phrases[k])})

\* (text.match(/c/g) || []).length for a single character c
CountChar(s, c) == Cardinality({i \in 1..Len(s) : Ch(s, i) = c})

\* /\b(w1|w2|...)\b/.test(s) for a lower-cased s: every alternative begins and
\* ends with a word character, so \b asks for a non-word neighbour or an end
WordBoundaryMatch(s, words) ==
    \E k \in 1..Len(words) : \E i \in 1..(Len(s) - Len(words[k]) + 1) :
        /\ MatchAt(s, i, words[k])
        /\ (i = 1 \/ ~IsWordChar(Ch(s, i - 1)))
        /\ (i + Len(words[k]) > Len(s) \/ ~IsWordChar(Ch(s, i + Len(words[k]))))

\* /prefix(a1|a2|...)/.test(s) for a lower-cased s
PrefixAltMatch(s, prefix, alts) ==
    \E k \in 1..Len(alts) : includes(s, prefix \o alts[k])

Min(a, b) == IF a <= b THEN a ELSE b

Max(a, b) == IF a >= b THEN a ELSE b

-----------------------------------------------------------------------------
(* runEngine.ts: the deterministic cognitive router.                       *)

\* clamp01 on a number scaled by the factor one
clamp01(n, one) == Max(0, Min(one, n))

detectThanksOrResolution(text) ==
    LET s == toLowerCase(text) IN
    includesAny(s, <<"thanks", "thank you", "i feel better", "feeling better",
                     "a little better", "ok now", "i^m okay", "i'm okay",
                     "that helped", "this helped">>)

detectActionRequest(text) ==
    LET s == toLowerCase(text) IN
    includesAny(s, <<"what should i do", "what do i do", "next step", "how do i",
                     "help me", "plan", "steps", "what now">>)

floodIndicators ==
    <<"i don't know", "dont know", "can't recall", "cant recall",
      "can't pinpoint", "cant pinpoint", "not sure", "idk", "whatever",
      "nothing", "blank", "mind is blank", "i can't think", "too much",
      "overwhelmed">>

userSeemsFlooded(text) == includesAny(trim(toLowerCase(text)), floodIndicators)

arousalMarkers ==
    <<"panic", "panicking", "super anxious", "very anxious", "anxious",
      "can't breathe", "cant breathe", "heart racing", "overwhelmed",
      "all-consuming", "spiraling", "i can't handle", "i cant handle",
      "i feel sick", "terrified", "scared", "shaking">>

\* the score before division, in halves: 2 per marker, 1 per half point
ArousalHalves(text) ==
    LET s == toLowerCase(text) IN
      2 * CountIncluded(s, arousalMarkers)
    + (IF CountChar(text, "!") >= 2 THEN 1 ELSE 0)
    + (IF Len(text) > 180 /\ (includes(s, "everything") \/ includes(s, "nothing"))
       THEN 1 ELSE 0)

\* clamp01(score / 3), in sixtieths: score/3 = halves/6 = 10*halves/60
detectHighArousal(text) == clamp01(10 * ArousalHalves(text), 60)

\* detectDistortionLikelihood with the catastrophic words weighted 0.25
detectDistortionLikelihood_quarter(text) ==
    LET s == toLowerCase(text) IN
    clamp01(
        (IF WordBoundaryMatch(s, <<"always", "never", "everyone", "no one",
                                   "nothing", "everything">>) THEN 40 ELSE 0)
      + (IF WordBoundaryMatch(s, <<"worst", "ruin", "disaster", "fired",
                                   "hopeless", "pointless">>) THEN 25 ELSE 0)
      + (IF WordBoundaryMatch(s, <<"should", "must", "have to">>) THEN 25 ELSE 0)
      + (IF WordBoundaryMatch(s, <<"they think", "they^ll think",
                                   "they will think">>) THEN 25 ELSE 0),
        100)

\* in hundredths
detectDistortionLikelihood(text) ==
    LET s == toLowerCase(text) IN
    clamp01(
        (IF WordBoundaryMatch(s, <<"always", "never", "everyone", "no one",
                                   "nothing", "everything">>) THEN 40 ELSE 0)
      + (IF WordBoundaryMatch(s, <<"worst", "ruin", "disaster", "fired",
                                   "hopeless", "pointless">>) THEN 40 ELSE 0)
      + (IF WordBoundaryMatch(s, <<"should", "must", "have to">>) THEN 25 ELSE 0)
      + (IF WordBoundaryMatch(s, <<"they think", "they^ll think",
                                   "they will think">>) THEN 25 ELSE 0),
        100)

Decision(state, intervention, confidence, askQuestion) ==
    [state |-> state, intervention |-> intervention,
     confidence |-> confidence, askQuestion |-> askQuestion]

\* decideEngineState with the NEXT_STEP rule tested before the arousal rule
decideEngineState_planFirst(userText, intent, groundingMode) ==
    IF groundingMode \/ intent = "CALM"
        THEN Decision("REGULATE", "GROUND", 85, FALSE)
    ELSE IF intent = "LISTEN"
        THEN Decision("PRESENCE", "VALIDATE_ONLY", 85, FALSE)
    ELSE IF detectThanksOrResolution(userText)
        THEN Decision("PRESENCE", "VALIDATE_ONLY", 75, FALSE)
    ELSE IF intent = "NEXT_STEP" \/ detectActionRequest(userText)
        THEN Decision("PLAN", "TINY_PLAN", 75, TRUE)
    ELSE IF detectHighArousal(userText) * 10 >= 6 * 60 \/ userSeemsFlooded(userText)
        THEN Decision("REGULATE", "GROUND", 80, FALSE)
    ELSE IF intent = "CLARITY"
        THEN Decision("CLARIFY", "SEPARATE_FACTS", 80, TRUE)
    ELSE IF intent = "MEANING"
        THEN Decision("MAP", "REFLECT_MAP", 75, TRUE)
    ELSE IF detectDistortionLikelihood(userText) * 10 >= 6 * 100
        THEN Decision("RESTRUCTURE", "CBT_REFRAME", 70, TRUE)
    ELSE Decision("MAP", "REFLECT_MAP", 65, TRUE)

\* decideEngineState with the relief rule merged into the LISTEN rule, so that
\* relief answers with confidence 0.85
decideEngineState_relief85(userText, intent, groundingMode) ==
    IF groundingMode \/ intent = "CALM"
        THEN Decision("REGULATE", "GROUND", 85, FALSE)
    ELSE IF intent = "LISTEN" \/ detectThanksOrResolution(userText)
        THEN Decision("PRESENCE", "VALIDATE_ONLY", 85, FALSE)
    ELSE IF detectHighArousal(userText) * 10 >= 6 * 60 \/ userSeemsFlooded(userText)
        THEN Decision("REGULATE", "GROUND", 80, FALSE)
    ELSE IF intent = "NEXT_STEP" \/ detectActionRequest(userText)
        THEN Decision("PLAN", "TINY_PLAN", 75, TRUE)
    ELSE IF intent = "CLARITY"
        THEN Decision("CLARIFY", "SEPARATE_FACTS", 80, TRUE)
    ELSE IF intent = "MEANING"
        THEN Decision("MAP", "REFLECT_MAP", 75, TRUE)
    ELSE IF detectDistortionLikelihood(userText) * 10 >= 6 * 100
        THEN Decision("RESTRUCTURE", "CBT_REFRAME", 70, TRUE)
    ELSE Decision("MAP", "REFLECT_MAP", 65, TRUE)

\* decideEngineState without the relief rule
decideEngineState_noRelief(userText, intent, groundingMode) ==
    IF groundingMode \/ intent = "CALM"
        THEN Decision("REGULATE", "GROUND", 85, FALSE)
    ELSE IF intent = "LISTEN"
        THEN Decision("PRESENCE", "VALIDATE_ONLY", 85, FALSE)
    ELSE IF detectHighArousal(userText) * 10 >= 6 * 60 \/ userSeemsFlooded(userText)
        THEN Decision("REGULATE", "GROUND", 80, FALSE)
    ELSE IF intent = "NEXT_STEP" \/ detectActionRequest(userText)
        THEN Decision("PLAN", "TINY_PLAN", 75, TRUE)
    ELSE IF intent = "CLARITY"
        THEN Decision("CLARIFY", "SEPARATE_FACTS", 80, TRUE)
    ELSE IF intent = "MEANING"
        THEN Decision("MAP", "REFLECT_MAP", 75, TRUE)
    ELSE IF detectDistortionLikelihood(userText) * 10 >= 6 * 100
        THEN Decision("RESTRUCTURE", "CBT_REFRAME", 70, TRUE)
    ELSE Decision("MAP", "REFLECT_MAP", 65, TRUE)

\* the analysis argument of the code is never read by decideEngineState
decideEngineState(userText, intent, groundingMode) ==
    IF groundingMode \/ intent = "CALM"
        THEN Decision("REGULATE", "GROUND", 85, FALSE)
    ELSE IF intent = "LISTEN"
        THEN Decision("PRESENCE", "VALIDATE_ONLY", 85, FALSE)
    ELSE IF detectThanksOrResolution(userText)
        THEN Decision("PRESENCE", "VALIDATE_ONLY", 75, FALSE)
    ELSE IF detectHighArousal(userText) * 10 >= 6 * 60 \/ userSeemsFlooded(userText)
        THEN Decision("REGULATE", "GROUND", 80, FALSE)
    ELSE IF intent = "NEXT_STEP" \/ detectActionRequest(userText)
        THEN Decision("PLAN", "TINY_PLAN", 75, TRUE)
    ELSE IF intent = "CLARITY"
        THEN Decision("CLARIFY", "SEPARATE_FACTS", 80, TRUE)
    ELSE IF intent = "MEANING"
        THEN Decision("MAP", "REFLECT_MAP", 75, TRUE)
    ELSE IF detectDistortionLikelihood(userText) * 10 >= 6 * 100
        THEN Decision("RESTRUCTURE", "CBT_REFRAME", 70, TRUE)
    ELSE Decision("MAP", "REFLECT_MAP", 65, TRUE)

\* (n / one).toFixed(2) for a score between 0 and 1
toFixed2(n, one) ==
    LET hundredths == (200 * n + one) \div (2 * one) IN
    IF hundredths >= 100 THEN "1.00"
    ELSE IF hundredths < 10 THEN "0.0" \o ToString(hundredths)
    ELSE "0." \o ToString(hundredths)

\* the reasons of the return statement a decision comes from
ReasonsOf(userText, decision) ==
    LET at == <<decision.state, decision.confidence>> IN
    CASE at = <<"REGULATE", 85>> -> <<"groundingMode or intent=CALM">>
      [] at = <<"PRESENCE", 85>> -> <<"intent=LISTEN">>
      [] at = <<"PRESENCE", 75>> -> <<"user signaled relief/resolution">>
      [] at = <<"REGULATE", 80>> ->
            <<"highArousal=" \o toFixed2(detectHighArousal(userText), 60),
              "flooded=" \o (IF userSeemsFlooded(userText) THEN "true" ELSE "false")>>
      [] at = <<"PLAN", 75>> -> <<"intent=NEXT_STEP or action request">>
      [] at = <<"CLARIFY", 80>> -> <<"intent=CLARITY">>
      [] at = <<"MAP", 75>> -> <<"intent=MEANING">>
      [] at = <<"RESTRUCTURE", 70>> ->
            <<"distortionLikely=" \o toFixed2(detectDistortionLikelihood(userText), 100)>>
      [] OTHER ->
            <<"distortionLikely=" \o toFixed2(detectDistortionLikelihood(userText), 100)
                \o " -> MAP">>

\* a decision with its reasons
WithReasons(userText, decision) ==
    [state |-> decision.state, intervention |-> decision.intervention,
     confidence |-> decision.confidence, reasons |-> ReasonsOf(userText, decision),
     askQuestion |-> decision.askQuestion]

\* decideEngineState sending a message whose analysis names a core wound to
\* RESTRUCTURE where it would answer MAP
EngineDecision_woundAware(userText, analysis, intent, groundingMode) ==
    LET d == decideEngineState(userText, intent, groundingMode) IN
    IF d.state = "MAP" /\ analysis.core_wound # Undefined
    THEN WithReasons(userText, [d EXCEPT !.state = "RESTRUCTURE",
                                        !.intervention = "CBT_REFRAME", !.confidence = 70])
    ELSE WithReasons(userText, d)

\* decideEngineState(userText, analysis, intent, groundingMode) as runEngine
\* calls it: the analysis is a parameter the function never reads
EngineDecision(userText, analysis, intent, groundingMode) ==
    WithReasons(userText, decideEngineState(userText, intent, groundingMode))

UserIntents == {"AUTO", "CALM", "CLARITY", "NEXT_STEP", "MEANING", "LISTEN"}

\* a session context the caller did not send
NoContext ==
    [present |-> FALSE, userIntent |-> Undefined,
     groundingMode |-> FALSE, groundingTurns |-> 0,
     previousQuestions |-> <<>>, previousReframes |-> <<>>,
     previousDistortions |-> <<>>, originalTrigger |-> Undefined,
     coreBeliefAlreadyDetected |-> FALSE]

\* resolveIntent without the test of the six intents
resolveIntent_declared(sessionContext) ==
    LET i == IF sessionContext.present THEN sessionContext.userIntent ELSE Undefined IN
    IF i = Undefined \/ i = "" THEN "AUTO" ELSE i

\* sessionContext?.userIntent mapped to one of the six intents
resolveIntent(sessionContext) ==
    LET i == IF sessionContext.present THEN sessionContext.userIntent ELSE Undefined IN
    IF i = Undefined \/ i = "" THEN "AUTO"
    ELSE IF i \in UserIntents THEN i
    ELSE "AUTO"

groundingIndicators ==
    <<"grounding", "something grounding", "shift toward", "take a break",
      "step back", "pause", "reset", "comfort", "something calming", "gentle",
      "coffee", "walk", "tea", "breathe", "small thing", "tiny step",
      "practical step">>

userChoseGrounding(text) == includesAny(trim(toLowerCase(text)), groundingIndicators)

Grounding(mode, turns) == [groundingMode |-> mode, groundingTurns |-> turns]

\* GroundingStep with an indicator continuing a running count instead of
\* restarting it at 1
GroundingStep_noReset(justChoseGrounding, sessionContext) ==
    LET wasInGroundingMode ==
            IF sessionContext.present THEN sessionContext.groundingMode ELSE FALSE
        previousTurns ==
            IF sessionContext.present THEN sessionContext.groundingTurns ELSE 0
    IN  IF wasInGroundingMode /\ previousTurns < 3
            THEN Grounding(TRUE, previousTurns + 1)
        ELSE IF justChoseGrounding THEN Grounding(TRUE, 1)
        ELSE Grounding(FALSE, 0)

\* GroundingStep letting the mode run one turn longer (previousTurns <= 3)
GroundingStep_lateExpiry(justChoseGrounding, sessionContext) ==
    LET wasInGroundingMode ==
            IF sessionContext.present THEN sessionContext.groundingMode ELSE FALSE
        previousTurns ==
            IF sessionContext.present THEN sessionContext.groundingTurns ELSE 0
    IN  IF justChoseGrounding THEN Grounding(TRUE, 1)
        ELSE IF wasInGroundingMode /\ previousTurns <= 3
            THEN Grounding(TRUE, previousTurns + 1)
        ELSE Grounding(FALSE, 0)

\* the transition shared by the two copies of isInGroundingMode
GroundingStep(justChoseGrounding, sessionContext) ==
    LET wasInGroundingMode ==
            IF sessionContext.present THEN sessionContext.groundingMode ELSE FALSE
        previousTurns ==
            IF sessionContext.present THEN sessionContext.groundingTurns ELSE 0
    IN  IF justChoseGrounding THEN Grounding(TRUE, 1)
        ELSE IF wasInGroundingMode /\ previousTurns < 3
            THEN Grounding(TRUE, previousTurns + 1)
        ELSE Grounding(FALSE, 0)

isInGroundingMode(sessionContext, userText) ==
    GroundingStep(userChoseGrounding(userText), sessionContext)

-----------------------------------------------------------------------------
(* route.ts: the copies the /api/reframe handler keeps of the helpers.     *)

routeGroundingIndicators ==
    <<"grounding", "something grounding", "shift toward", "take a break",
      "step back", "pause", "reset", "comfort", "something calming", "gentle",
      "ice cream", "coffee", "walk", "tea", "breathe", "small thing",
      "tiny step", "practical step">>

routeUserChoseGrounding(text) ==
    includesAny(trim(toLowerCase(text)), routeGroundingIndicators)

routeIsInGroundingMode(sessionContext, userText) ==
    GroundingStep(routeUserChoseGrounding(userText), sessionContext)

-----------------------------------------------------------------------------
(* More string helpers used by the output sanitizer of route.ts.           *)

\* a value of JavaScript that is neither undefined nor the empty string
Truthy(v) == v # Undefined /\ v # ""

\* the idiom (v || '')
Str(v) == IF v = Undefined THEN "" ELSE v

\* a JSON number other than 0 as the value of a field: truthy, of type
\* 'number', without the methods of a string
JsonNumber == "<number>"

\* typeof v === 'string'
IsString(v) == v \notin {Undefined, JsonNumber}

\* one or more white-space characters inside a RegexSeq pattern: \s+
WS == "<s+>"

RECURSIVE MatchSeqAt(_, _, _, _)
\* a regular expression that is a sequence of groups of literal alternatives
\* ("" makes a group optional, WS is \s+), matched in s from index i on
MatchSeqAt(s, i, groups, k) ==
    IF k > Len(groups) THEN TRUE
    ELSE \E a \in 1..Len(groups[k]) :
            IF groups[k][a] = WS
            THEN /\ i <= Len(s)
                 /\ IsSpace(Ch(s, i))
                 /\ MatchSeqAt(s, SkipSpaces(s, i), groups, k + 1)
            ELSE /\ MatchAt(s, i, groups[k][a])
                 /\ MatchSeqAt(s, i + Len(groups[k][a]), groups, k + 1)

\* /g1g2.../.test(s) for a lower-cased s
RegexSeq(s, groups) == \E i \in 1..(Len(s) + 1) : MatchSeqAt(s, i, groups, 1)

IsLetter(c) ==
    c \in {"a","b","c","d","e","f","g","h","i","j","k","l","m",
           "n","o","p","q","r","s","t","u","v","w","x","y","z"}

\* /^prefix[a-z]+\.?$/.test(s) for a lower-cased s
PrefixWordToEnd(s, prefix) ==
    /\ startsWith(s, prefix)
    /\ LET rest == SubSeq(s, Len(prefix) + 1, Len(s))
           word == IF endsWith(rest, ".") THEN SubSeq(rest, 1, Len(rest) - 1) ELSE rest
       IN  \/ /\ Len(word) >= 1
              /\ \A i \in 1..Len(word) : IsLetter(Ch(word, i))
           \* the final "." taken by [a-z]+ is impossible: "." is no letter

\* the index of the first separator /[.!?]\s/ of s at or after i (0 when none)
SeparatorFrom(s, i) ==
    LET found == {j \in i..(Len(s) - 1) :
                    Ch(s, j) \in {".", "!", "?"} /\ IsSpace(Ch(s, j + 1))}
    IN  IF found = {} THEN 0 ELSE CHOOSE j \in found : \A k \in found : j <= k

RECURSIVE SplitFrom(_, _)
\* s.split(/[.!?]\s/) from index i on
SplitFrom(s, i) ==
    LET j == SeparatorFrom(s, i) IN
    IF j = 0 THEN << SubSeq(s, i, Len(s)) >>
    ELSE << SubSeq(s, i, j - 1) >> \o SplitFrom(s, j + 2)

splitSentences(s) == SplitFrom(s, 1)

\* q.split(/[.!?]\s/)[0]?.trim() || q
firstSentence(q) ==
    LET one == trim(splitSentences(q)[1]) IN
    IF one = "" THEN q ELSE one

\* /[.!?]$/.test(s)
EndsWithPunctuation(s) == endsWith(s, ".") \/ endsWith(s, "!") \/ endsWith(s, "?")

RECURSIVE JoinWith(_, _)
JoinWith(parts, sep) ==
    IF Len(parts) = 0 THEN ""
    ELSE IF Len(parts) = 1 THEN parts[1]
    ELSE parts[1] \o sep \o JoinWith(Tail(parts), sep)

\* array.filter(Boolean) on strings
FilterNonEmpty(parts) == SelectSeq(parts, LAMBDA x : x # "")

\* array.slice(0, n)
Take(xs, n) == SubSeq(xs, 1, Min(n, Len(xs)))

\* array.slice(-n)
TakeLast(xs, n) == SubSeq(xs, Max(1, Len(xs) - n + 1), Len(xs))

-----------------------------------------------------------------------------
(* The texts of the model: the messages users send, the objects the model  *)
(* answers with, and the fixed lines of the handlers.  The string          *)
(* functions are tabulated over them once (the definitions named ..._t),   *)
(* each table holding the values its function computes.                    *)

ScenarioA == "I always fail at everything, I'm such a failure"
ScenarioB == "thanks, I feel a little better now"
ScenarioC == "I can't breathe, I'm panicking, what do I do!!"

RouterTexts ==
    { ScenarioA, ScenarioB, ScenarioC,
      "My boss ignored my email",
      "What should I do about my job",
      "I don't know, my mind is blank",
      "idk, help me",
      "I always ruin things",
      "I should go, they think I must",
      "I'm scared",
      "I'm scared!!",
      "I'm scared and shaking",
      "thanks but I'm terrified and shaking" }

GroundingTexts ==
    { "My boss ignored my email", "Can we take a break", "I want ice cream",
      ScenarioC }

PlainText == "I keep thinking about the meeting"
\* a relief keyword next to two distress markers
ReliefInDistress == "thanks but I'm terrified and shaking"
CoreBeliefText == "I'm a failure."
GroundingText == "can we take a break"
BlankText == "  "

NoFields ==
    [trigger_event |-> Undefined, likely_interpretation |-> Undefined,
     underlying_fear |-> Undefined, emotional_need |-> Undefined,
     core_wound |-> Undefined,
     acknowledgment |-> Undefined, thoughtPattern |-> Undefined,
     distortionType |-> Undefined, patternNote |-> Undefined,
     distortionExplanation |-> Undefined, reframe |-> Undefined,
     question |-> Undefined, encouragement |-> Undefined,
     layerInsight |-> Undefined]

\* what callAI resolves to: null ("null"), or a result whose content is the
\* empty string ("empty"), a JSON text ("json"), a JSON text inside a code
\* fence and prose ("fenced"), prose without any object ("text"), or prose
\* with braces around something that is not JSON ("braces")
Reply(kind, obj) == [kind |-> kind, obj |-> obj]
NullReply == Reply("null", NoFields)
EmptyReply == Reply("empty", NoFields)
TextReply == Reply("text", NoFields)
BracesReply == Reply("braces", NoFields)

\* !analysisResponse?.content taken as true for every result
HasContent_never(reply) == FALSE

\* analysisResponse?.content is truthy
HasContent(reply) == reply.kind \notin {"null", "empty"}

\* JSON.parse, then fence stripping and brace extraction; without an object
\* in the content the function falls off its end (undefined), and it
\* returns null when the text between the braces does not parse
parseAIJSON(reply) ==
    IF reply.kind \in {"json", "fenced"} THEN [ok |-> TRUE, obj |-> reply.obj]
    ELSE [ok |-> FALSE, obj |-> NoFields]

AnalysisJSON ==
    [NoFields EXCEPT !.trigger_event = "A meeting went badly",
                     !.likely_interpretation = "They think they embarrassed themselves",
                     !.underlying_fear = "Being seen as incompetent",
                     !.emotional_need = "to feel capable",
                     !.core_wound = "Not being good enough"]

\* a model that answers every turn with the same reframe and question
RepeatingJSON ==
    [NoFields EXCEPT !.acknowledgment = "That meeting is still sitting with you.",
                     !.thoughtPattern = "catastrophizing",
                     !.patternNote = "One moment is standing in for the whole picture.",
                     !.reframe = "One rough meeting is a data point, not a judgment of your work.",
                     !.question = "What would you say to a friend in your place? Take your time.",
                     !.encouragement = ""]

DefaultAnalysis ==
    [NoFields EXCEPT !.trigger_event = "Something happened that triggered a reaction",
                     !.likely_interpretation = "This situation has meaning to them",
                     !.underlying_fear = "There's a fear underneath",
                     !.emotional_need = "Understanding"]

\* the values of the fields an object has
FieldsOf(obj) == {obj[f] : f \in DOMAIN obj} \ {Undefined}

KnownUserTexts ==
    RouterTexts \cup GroundingTexts \cup {PlainText, CoreBeliefText, GroundingText}

\* the lines the handlers produce or receive in the model, each with its
\* trimmed, first-sentence, lower-cased and normalised forms
KnownLines ==
    { "   ",
      "",
      "A meeting went badly",
      "A painful moment can shake your confidence -- but it still doesn^t get to decide your worth.",
      "All-or-nothing thinking",
      "Being seen as incompetent",
      "Catastrophizing",
      "Core Belief",
      "Crisis Response",
      "Discounting positives",
      "Do you want comfort or something practical?",
      "Do you want comfort right now, or a tiny practical step?",
      "Effort without results doesn^t erase the effort",
      "Effort without results doesn^t erase the effort. Timing and constraints are real.",
      "Emotional reasoning",
      "Fortune telling",
      "I get why this feels so sharp.",
      "It can make emotional sense and still not be the full picture.",
      "It feels true right now -- but pressure can make it feel bigger than it is.",
      "Jumping to conclusions",
      "Keep going!!",
      "Keep going.",
      "Labeling",
      "Let^s keep this simple: the feeling is real, but the label you^re putting on yourself may be harsher than the facts.",
      "Let^s pause for a second -- this is feeling more final than it actually is.",
      "Let^s take one small breath here.",
      "Mental filter",
      "Mind reading",
      "Not being good enough",
      "Not meeting expectations isn^t proof you^re a disappointment -- it^s pressure talking.",
      "ONE rough  meeting is a data point, not a judgment of your work.",
      "One moment is standing in for the whole picture.",
      "One rough meeting is a data point, not a judgment of your work.",
      "Ouch",
      "Ouch. That^s heavy to carry.",
      "Overgeneralization",
      "Personalization",
      "Right now your safety is the priority.",
      "Rumination",
      "Should statements",
      "Something happened that triggered a reaction",
      "Taking care of yourself is valid.",
      "Thanks for putting words to it.",
      "That belief shows up fast when the pressure hits.",
      "That fear is loud right now, but it isn^t the whole truth about you.",
      "That fear is real -- but it doesn^t mean you^re unlovable or alone forever.",
      "That fear is real -- but it doesn^t mean you^re unlovable.",
      "That meeting is still sitting with you.",
      "That^s a painful place to be -- and you^re naming it.",
      "The feeling is real -- but the conclusion might be harsher than the facts support.",
      "The feeling is real, but the conclusion may be harsher than the facts.",
      "The harsh conclusion isn^t the only explanation here.",
      "There's a fear underneath",
      "There^s a deep fear driving this.",
      "They think they embarrassed themselves",
      "This belief is your brain trying to protect you from getting hurt again -- but it isn^t a verdict on you.",
      "This feels like a verdict, but it^s still a thought under stress -- not a final fact.",
      "This lands at identity-level, not just a passing thought.",
      "This moment doesn't define you",
      "This moment doesn't define you. There are people trained to help.",
      "This situation has meaning to them",
      "This sounds less like a distortion and more like exhaustion.",
      "Understanding",
      "What would you say to a friend in your place",
      "What would you say to a friend in your place? Take your time.",
      "What would you say to a friend in your place?",
      "When did you first feel this way?",
      "When effort keeps hitting walls, the mind reaches for a harsh explanation.",
      "When the stakes feel high, the mind tries to \"solve\" it by predicting outcomes.",
      "When you^re depleted, thoughts get more absolute.",
      "Would you like me to connect you with someone who can help right now?",
      "Would you like to talk about what's bringing these feelings up?",
      "Yeah -- that makes sense.",
      "You don^t have to solve everything right now -- just take the next breath.",
      "You're sharing something really serious, and I want to make sure you get the right support.",
      "Your safety matters most right now.",
      "a meeting went badly",
      "a painful moment can shake your confidence -- but it still doesn^t get to decide your worth.",
      "all-or-nothing thinking",
      "being seen as incompetent",
      "catastrophizing",
      "core belief",
      "crisis response",
      "discounting positives",
      "do you want comfort or something practical?",
      "do you want comfort right now, or a tiny practical step?",
      "effort without results doesn^t erase the effort",
      "effort without results doesn^t erase the effort. timing and constraints are real.",
      "emotional reasoning",
      "fortune telling",
      "i get why this feels so sharp.",
      "it can make emotional sense and still not be the full picture.",
      "it feels true right now -- but pressure can make it feel bigger than it is.",
      "jumping to conclusions",
      "keep going!!",
      "keep going.",
      "labeling",
      "let^s keep this simple: the feeling is real, but the label you^re putting on yourself may be harsher than the facts.",
      "let^s pause for a second -- this is feeling more final than it actually is.",
      "let^s take one small breath here.",
      "mental filter",
      "mind reading",
      "not being good enough",
      "not meeting expectations isn^t proof you^re a disappointment -- it^s pressure talking.",
      "one moment is standing in for the whole picture.",
      "one rough  meeting is a data point, not a judgment of your work.",
      "one rough meeting is a data point, not a judgment of your work.",
      "ouch",
      "ouch. that^s heavy to carry.",
      "overgeneralization",
      "personalization",
      "right now your safety is the priority.",
      "rumination",
      "should statements",
      "something happened that triggered a reaction",
      "taking care of yourself is valid.",
      "thanks for putting words to it.",
      "that belief shows up fast when the pressure hits.",
      "that fear is loud right now, but it isn^t the whole truth about you.",
      "that fear is real -- but it doesn^t mean you^re unlovable or alone forever.",
      "that fear is real -- but it doesn^t mean you^re unlovable.",
      "that meeting is still sitting with you.",
      "that^s a painful place to be -- and you^re naming it.",
      "the feeling is real -- but the conclusion might be harsher than the facts support.",
      "the feeling is real, but the conclusion may be harsher than the facts.",
      "the harsh conclusion isn^t the only explanation here.",
      "there's a fear underneath",
      "there^s a deep fear driving this.",
      "they think they embarrassed themselves",
      "this belief is your brain trying to protect you from getting hurt again -- but it isn^t a verdict on you.",
      "this feels like a verdict, but it^s still a thought under stress -- not a final fact.",
      "this lands at identity-level, not just a passing thought.",
      "this moment doesn't define you",
      "this moment doesn't define you. there are people trained to help.",
      "this situation has meaning to them",
      "this sounds less like a distortion and more like exhaustion.",
      "to feel capable",
      "understanding",
      "what would you say to a friend in your place",
      "what would you say to a friend in your place? take your time.",
      "what would you say to a friend in your place?",
      "when did you first feel this way?",
      "when effort keeps hitting walls, the mind reaches for a harsh explanation.",
      "when the stakes feel high, the mind tries to \"solve\" it by predicting outcomes.",
      "when you^re depleted, thoughts get more absolute.",
      "would you like me to connect you with someone who can help right now?",
      "would you like to talk about what's bringing these feelings up?",
      "yeah -- that makes sense.",
      "you don^t have to solve everything right now -- just take the next breath.",
      "you're sharing something really serious, and i want to make sure you get the right support.",
      "your safety matters most right now." }

toLowerCaseTable == [s \in KnownLines \cup KnownUserTexts |-> toLowerCase(s)]
toLowerCase_t(s) == toLowerCaseTable[s]

decideEngineStateTable ==
    [t \in KnownUserTexts |-> [i \in UserIntents |-> [g \in BOOLEAN |->
        decideEngineState(t, i, g)]]]
decideEngineState_t(userText, intent, groundingMode) ==
    decideEngineStateTable[userText][intent][groundingMode]

-----------------------------------------------------------------------------
(* route.ts: normalisation and the exact-repetition checks.                *)

normalizeForCompare(s) == trim(collapseWhitespace(toLowerCase(Str(s))))

normalizeForCompareTable == [s \in KnownLines |-> normalizeForCompare(s)]
normalizeForCompare_t(s) == normalizeForCompareTable[s]

\* isDuplicateReframe finding no duplicate
isDuplicateReframe_never(reframe, previousReframes) == FALSE

isDuplicateReframe(reframe, previousReframes) ==
    \E k \in 1..Len(previousReframes) :
        normalizeForCompare_t(previousReframes[k]) = normalizeForCompare_t(reframe)

isDuplicateQuestion(question, previousQuestions) ==
    \E k \in 1..Len(previousQuestions) :
        normalizeForCompare_t(previousQuestions[k]) = normalizeForCompare_t(question)

isDuplicatePatternNote(note, previousNotes) ==
    \E k \in 1..Len(previousNotes) :
        normalizeForCompare_t(previousNotes[k]) = normalizeForCompare_t(note)

identityWords ==
    <<"undesirable", "unlovable", "worthless", "hopeless", "broken", "a failure",
      "a fraud", "a burden", "a mess", "a loser", "a disappointment">>

\* identityPatterns.some(p => p.test(userText))
IsIdentityStatement(userText) ==
    LET s == toLowerCase(userText) IN
    \/ PrefixWordToEnd(s, "i am ")
    \/ PrefixWordToEnd(s, "i'm ") \/ PrefixWordToEnd(s, "im ")
    \/ PrefixWordToEnd(s, "i am not ")
    \/ PrefixWordToEnd(s, "i'm not ") \/ PrefixWordToEnd(s, "im not ")
    \/ RegexSeq(s, << <<"i am ">>, identityWords >>)
    \/ RegexSeq(s, << <<"i'm ", "im ">>, identityWords >>)

IsIdentityStatementTable == [t \in KnownUserTexts |-> IsIdentityStatement(t)]
IsIdentityStatement_t(userText) == IsIdentityStatementTable[userText]

adjustDistortionForIdentityStatement(userText, effectiveLayer, thoughtPattern) ==
    IF IsIdentityStatement_t(userText) /\ effectiveLayer # "CORE_WOUND" THEN "Labeling"
    ELSE thoughtPattern

detectRepeatedEffort(text) ==
    includesAny(trim(toLowerCase(Str(text))),
        <<"no matter how much", "no matter what", "no matter how hard",
          "over and over", "again and again", "keep trying", "keeps happening",
          "nothing works", "nothing i do", "always fails", "never works",
          "every time", "each time", "repeatedly", "keep failing",
          "tired of trying", "sick of trying", "gave up", "given up",
          "nothing ever goes", "nothing ever works", "can never",
          "doesn't matter what", "does not matter what">>)

detectRepeatedEffortTable == [x \in KnownUserTexts |-> detectRepeatedEffort(x)]
detectRepeatedEffort_t(text) == detectRepeatedEffortTable[text]

\* route.ts keeps its own copy of userSeemsFlooded, with the same indicator list
routeUserSeemsFlooded(text) ==
    includesAny(trim(toLowerCase(Str(text))),
        <<"i don't know", "dont know", "can't recall", "cant recall",
          "can't pinpoint", "cant pinpoint", "not sure", "idk",
          "whatever", "nothing", "blank", "mind is blank",
          "i can't think", "too much", "overwhelmed">>)

routeUserSeemsFloodedTable == [x \in KnownUserTexts |-> routeUserSeemsFlooded(x)]
routeUserSeemsFlooded_t(text) == routeUserSeemsFloodedTable[text]

isTherapistProbe(q) ==
    LET s == trim(toLowerCase(q)) IN
    \/ includesAny(s,
        <<"earliest memory", "when did you first", "how long have you",
          "when did this start", "childhood", "growing up", "in your past",
          "timeline", "first started feeling", "memory you have of",
          "where did you learn", "what happened when you were",
          "where in your body", "where do you feel it", "where in your head",
          "pin point", "pinpoint", "describe where",
          "chapter", "ending", "story">>)
    \/ /\ startsWith(s, "when did")
       /\ (Len(s) = 8 \/ ~IsWordChar(Ch(s, 9)))

isTherapistProbeTable == [x \in KnownLines |-> isTherapistProbe(x)]
isTherapistProbe_t(q) == isTherapistProbeTable[q]

choiceQuestion == "Do you want comfort right now, or a tiny practical step?"

isChoiceQuestionText(q) ==
    LET s == toLowerCase(Str(q)) IN
    IF s = "" THEN FALSE
    ELSE \/ includes(s, "comfort right now")
         \/ includes(s, "tiny practical step")
         \/ (includes(s, "comfort") /\ includes(s, "practical"))
         \/ (includes(s, "do you want") /\ includes(s, "or"))

isChoiceQuestionTextTable == [x \in KnownLines |-> isChoiceQuestionText(x)]
isChoiceQuestionText_t(q) == isChoiceQuestionTextTable[q]

\* one.endsWith('?') ? one : one + '?'
WithQuestionMark(one) == IF endsWith(one, "?") THEN one ELSE one \o "?"

\* finalizeQuestion without the fixed question for a flooded user
finalizeQuestion_silent(question, effectiveLayer, userText, previousQuestions, groundingMode, lastQuestionType) ==
    LET q == trim(Str(question))
        flooded == routeUserSeemsFlooded_t(userText)
        probe == IF q # "" THEN isTherapistProbe_t(q) ELSE FALSE
        dup == IF q # "" THEN isDuplicateQuestion(q, previousQuestions) ELSE FALSE
        one == firstSentence(q)
        out == WithQuestionMark(one)
    IN  IF groundingMode THEN
            IF q = "" \/ probe THEN ""
            ELSE IF \/ includes(toLowerCase_t(one), "explore")
                    \/ includes(toLowerCase_t(one), "grounding")
                    \/ includes(toLowerCase_t(one), "deeply")
                 THEN ""
            ELSE out
        ELSE IF lastQuestionType = "choice" /\ isChoiceQuestionText_t(q) THEN ""
        ELSE IF effectiveLayer # "CORE_WOUND" THEN
            IF q = "" \/ probe THEN ""
            ELSE IF isDuplicateQuestion(one, previousQuestions) THEN ""
            ELSE out
        ELSE IF q = "" \/ probe \/ dup THEN ""
        ELSE IF isTherapistProbe_t(out) THEN ""
        ELSE out

finalizeQuestion(question, effectiveLayer, userText, previousQuestions, groundingMode, lastQuestionType) ==
    LET q == trim(Str(question))
        flooded == routeUserSeemsFlooded_t(userText)
        probe == IF q # "" THEN isTherapistProbe_t(q) ELSE FALSE
        dup == IF q # "" THEN isDuplicateQuestion(q, previousQuestions) ELSE FALSE
        one == firstSentence(q)
        out == WithQuestionMark(one)
    IN  IF groundingMode THEN
            IF q = "" \/ probe THEN ""
            ELSE IF \/ includes(toLowerCase_t(one), "explore")
                    \/ includes(toLowerCase_t(one), "grounding")
                    \/ includes(toLowerCase_t(one), "deeply")
                 THEN ""
            ELSE out
        ELSE IF lastQuestionType = "choice" /\ isChoiceQuestionText_t(q) THEN ""
        ELSE IF effectiveLayer # "CORE_WOUND" THEN
            IF q = "" \/ probe THEN ""
            ELSE IF isDuplicateQuestion(one, previousQuestions) THEN ""
            ELSE out
        ELSE IF q = "" \/ probe \/ dup THEN (IF flooded THEN choiceQuestion ELSE "")
        ELSE IF isTherapistProbe_t(out) THEN (IF flooded THEN choiceQuestion ELSE "")
        ELSE out

\* the synonym table, in the order Object.entries walks it
normalizations ==
    << <<"black-and-white", "All-or-nothing thinking">>,
       <<"black and white", "All-or-nothing thinking">>,
       <<"all-or-nothing", "All-or-nothing thinking">>,
       <<"all or nothing", "All-or-nothing thinking">>,
       <<"catastrophizing", "Catastrophizing">>,
       <<"catastrophe", "Catastrophizing">>,
       <<"mind reading", "Mind reading">>,
       <<"mindreading", "Mind reading">>,
       <<"overgeneralization", "Overgeneralization">>,
       <<"over-generalization", "Overgeneralization">>,
       <<"personalization", "Personalization">>,
       <<"labeling", "Labeling">>,
       <<"emotional reasoning", "Emotional reasoning">>,
       <<"should statements", "Should statements">>,
       <<"fortune telling", "Fortune telling">>,
       <<"discounting positives", "Discounting positives">>,
       <<"mental filter", "Mental filter">>,
       <<"jumping to conclusions", "Jumping to conclusions">>,
       <<"core belief", "Core Belief">>,
       <<"identity belief", "Core Belief">> >>

normalizeThoughtPattern(p) ==
    IF ~Truthy(p) THEN ""
    ELSE LET s == trim(p)
             lower == toLowerCase(s)
             hits == {k \in 1..Len(normalizations) : includes(lower, normalizations[k][1])}
         IN  IF hits = {} THEN s
             ELSE normalizations[CHOOSE k \in hits : \A j \in hits : k <= j][2]

labelWords ==
    <<"failure", "loser", "mess", "burden", "worthless", "broken", "unlovable",
      "undesirable">>

inferFallbackThoughtPattern(userText, effectiveLayer) ==
    LET s == toLowerCase(userText) IN
    IF effectiveLayer = "CORE_WOUND" THEN "Core Belief"
    ELSE IF \/ RegexSeq(s, << <<"i am", "i'm">>, <<WS>>, labelWords >>)
            \/ RegexSeq(s, << <<"i am", "i'm">>, <<WS>>, <<"a">>, <<WS>>, labelWords >>)
        THEN "Labeling"
    ELSE IF includesAny(s, <<"replay", "loop", "can't stop thinking",
                             "cant stop thinking", "ruminat", "over and over",
                             "again and again">>)
        THEN "Rumination"
    ELSE IF includesAny(s, <<"ruin", "disaster", "everything will", "i'll be fired",
                             "ill be fired", "worst case", "end of the world">>)
        THEN "Catastrophizing"
    ELSE IF WordBoundaryMatch(s, <<"always", "never", "everything", "nothing",
                                   "completely", "totally", "either", "only">>)
        THEN "All-or-nothing thinking"
    ELSE ""

Layers == {"SURFACE", "TRANSITION", "EMOTION", "CORE_WOUND"}

inferFallbackThoughtPatternTable ==
    [t \in KnownUserTexts |-> [l \in Layers |-> inferFallbackThoughtPattern(t, l)]]
inferFallbackThoughtPattern_t(userText, effectiveLayer) ==
    inferFallbackThoughtPatternTable[userText][effectiveLayer]

\* coerceThoughtPatternByLayer without the downgrade below CORE_WOUND
coerceThoughtPatternByLayer_noGate(thoughtPattern, effectiveLayer) ==
    IF effectiveLayer = "CORE_WOUND" THEN "Core Belief"
    ELSE normalizeThoughtPattern(thoughtPattern)

\* coerceThoughtPatternByLayer without the CORE_WOUND branch
coerceThoughtPatternByLayer_noForce(thoughtPattern, effectiveLayer) ==
    LET p == normalizeThoughtPattern(thoughtPattern)
        isCore == toLowerCase(p) = "core belief"
    IN  IF effectiveLayer # "CORE_WOUND" /\ isCore THEN "Catastrophizing" ELSE p

coerceThoughtPatternByLayer(thoughtPattern, effectiveLayer) ==
    LET p == normalizeThoughtPattern(thoughtPattern)
        isCore == toLowerCase(p) = "core belief"
    IN  IF effectiveLayer # "CORE_WOUND" /\ isCore THEN "Catastrophizing"
        ELSE IF effectiveLayer = "CORE_WOUND" THEN "Core Belief"
        ELSE p

metaphorCluster ==
    <<"chapter", "ending", "just a story", "black and white", "spectrum",
      "math problem", "fixed point">>

\* metaphorCluster.some(m => s.includes(m))
HasMetaphorCluster(s) == includesAny(s, metaphorCluster)

HasMetaphorClusterTable == [x \in KnownLines |-> HasMetaphorCluster(x)]
HasMetaphorCluster_t(s) == HasMetaphorClusterTable[s]

\* banned.some(b => s.includes(b))
HasBannedPhrase(s) ==
    includesAny(s, <<"just a story", "one chapter", "not the ending", "whole truth",
                     "black and white photo", "spectrum of experiences",
                     "math problem", "fixed point on a scale">>)

HasBannedPhraseTable == [x \in KnownLines |-> HasBannedPhrase(x)]
HasBannedPhrase_t(s) == HasBannedPhraseTable[s]

\* sanitizeReframeAllLayers without the fixed lines for an empty reframe
sanitizeReframeAllLayers_keepEmpty(reframe, previousReframes, analysis, effectiveLayer) ==
    LET r == trim(Str(reframe))
        coreWound == toLowerCase_t(Str(analysis.core_wound))
        underlyingFear == toLowerCase_t(Str(analysis.underlying_fear))
        isAbandonment ==
            \/ includes(coreWound, "love") \/ includes(coreWound, "alon")
            \/ includes(coreWound, "leave") \/ includes(coreWound, "want")
            \/ includes(underlyingFear, "love") \/ includes(underlyingFear, "alon")
        isFailure ==
            \/ includes(coreWound, "fail") \/ includes(coreWound, "enough")
            \/ includes(underlyingFear, "fail") \/ includes(underlyingFear, "enough")
        cur == normalizeForCompare_t(r)
        prev == [k \in 1..Len(previousReframes) |-> normalizeForCompare_t(previousReframes[k])]
        startsWhatIf == startsWith(cur, "what if")
        alreadyUsedWhatIf == \E k \in 1..Len(prev) : startsWith(prev[k], "what if")
        prevHasCluster == \E k \in 1..Len(prev) : HasMetaphorCluster_t(prev[k])
    IN  IF r = "" THEN r
        ELSE IF startsWhatIf /\ alreadyUsedWhatIf THEN
            IF isAbandonment \/ effectiveLayer = "CORE_WOUND"
            THEN "That fear is real -- but it doesn^t mean you^re unlovable or alone forever."
            ELSE "The feeling is real, but the conclusion may be harsher than the facts."
        ELSE IF HasMetaphorCluster_t(toLowerCase_t(r)) /\ prevHasCluster THEN
            "Let^s keep this simple: the feeling is real, but the label you^re putting on yourself may be harsher than the facts."
        ELSE IF /\ effectiveLayer = "CORE_WOUND"
                /\ HasBannedPhrase_t(toLowerCase_t(r))
            THEN "This belief is your brain trying to protect you from getting hurt again -- but it isn^t a verdict on you."
        ELSE r

sanitizeReframeAllLayers(reframe, previousReframes, analysis, effectiveLayer) ==
    LET r == trim(Str(reframe))
        coreWound == toLowerCase_t(Str(analysis.core_wound))
        underlyingFear == toLowerCase_t(Str(analysis.underlying_fear))
        isAbandonment ==
            \/ includes(coreWound, "love") \/ includes(coreWound, "alon")
            \/ includes(coreWound, "leave") \/ includes(coreWound, "want")
            \/ includes(underlyingFear, "love") \/ includes(underlyingFear, "alon")
        isFailure ==
            \/ includes(coreWound, "fail") \/ includes(coreWound, "enough")
            \/ includes(underlyingFear, "fail") \/ includes(underlyingFear, "enough")
        cur == normalizeForCompare_t(r)
        prev == [k \in 1..Len(previousReframes) |-> normalizeForCompare_t(previousReframes[k])]
        startsWhatIf == startsWith(cur, "what if")
        alreadyUsedWhatIf == \E k \in 1..Len(prev) : startsWith(prev[k], "what if")
        prevHasCluster == \E k \in 1..Len(prev) : HasMetaphorCluster_t(prev[k])
    IN  IF r = "" THEN
            IF effectiveLayer = "CORE_WOUND" THEN
                IF isAbandonment THEN "That fear is real -- but it doesn^t mean you^re unlovable."
                ELSE IF isFailure THEN "Not meeting expectations isn^t proof you^re a disappointment -- it^s pressure talking."
                ELSE "A painful moment can shake your confidence -- but it still doesn^t get to decide your worth."
            ELSE IF isAbandonment THEN "That fear is loud right now, but it isn^t the whole truth about you."
            ELSE IF isFailure THEN "This feels like a verdict, but it^s still a thought under stress -- not a final fact."
            ELSE "The feeling is real -- but the conclusion might be harsher than the facts support."
        ELSE IF startsWhatIf /\ alreadyUsedWhatIf THEN
            IF isAbandonment \/ effectiveLayer = "CORE_WOUND"
            THEN "That fear is real -- but it doesn^t mean you^re unlovable or alone forever."
            ELSE "The feeling is real, but the conclusion may be harsher than the facts."
        ELSE IF HasMetaphorCluster_t(toLowerCase_t(r)) /\ prevHasCluster THEN
            "Let^s keep this simple: the feeling is real, but the label you^re putting on yourself may be harsher than the facts."
        ELSE IF /\ effectiveLayer = "CORE_WOUND"
                /\ HasBannedPhrase_t(toLowerCase_t(r))
            THEN "This belief is your brain trying to protect you from getting hurt again -- but it isn^t a verdict on you."
        ELSE r

compactOneSentence(text) ==
    LET t == trim(Str(text)) IN
    IF t = "" THEN ""
    ELSE LET one == firstSentence(t) IN
         IF EndsWithPunctuation(one) THEN one ELSE one \o "."

compactTwoSentences(text) ==
    LET t == trim(Str(text)) IN
    IF t = "" THEN ""
    ELSE LET parts == FilterNonEmpty(splitSentences(t))
             out == trim(JoinWith(Take(parts, 2), ". "))
         IN  IF out = "" THEN ""
             ELSE IF EndsWithPunctuation(out) THEN out ELSE out \o "."

compactOneSentenceTable == [x \in KnownLines |-> compactOneSentence(x)]
compactOneSentence_t(text) == compactOneSentenceTable[text]

compactTwoSentencesTable == [x \in KnownLines |-> compactTwoSentences(x)]
compactTwoSentences_t(text) == compactTwoSentencesTable[text]

genericLines ==
    <<"you^re engaging with this", "that takes real effort",
      "just talking about it is a step", "it matters that you^re showing up",
      "let^s slow it down", "pressure makes everything feel final",
      "the feeling is real", "not a verdict", "i^m with you", "that makes sense",
      "you^re not alone", "storm inside", "weather this storm">>

\* isGenericLine without the test of the length
isGenericLine_anyLength(s) ==
    LET t == normalizeForCompare(s) IN
    IF t = "" THEN TRUE ELSE includesAny(t, genericLines)

isGenericLine(s) ==
    LET t == normalizeForCompare(s) IN
    IF t = "" THEN TRUE
    ELSE IF Len(t) < 12 THEN TRUE
    ELSE includesAny(t, genericLines)

isGenericLineTable == [x \in KnownLines |-> isGenericLine(x)]
isGenericLine_t(s) == isGenericLineTable[s]

needsRegeneration(out, previousReframes, previousQuestions) ==
    LET q == trim(Str(out.question))
        r == trim(Str(out.reframe))
        e == trim(Str(out.encouragement))
    IN  \/ (q # "" /\ isDuplicateQuestion(q, previousQuestions))
        \/ (r # "" /\ isDuplicateReframe(r, previousReframes))
        \/ isGenericLine_t(r)
        \/ (e # "" /\ isGenericLine_t(e))
        \/ r = ""

-----------------------------------------------------------------------------
(* Values exchanged with the collaborators.  A JSON object of the model is *)
(* a record over the field names the handlers read; a field the object     *)
(* does not have is Undefined.                                             *)

\* let analysis = {defaults}; if (content) { parsed = parseAIJSON; if (parsed) analysis = parsed }
\* the analysis read from the response without the test of the parse
AnalysisOf_unchecked(analysisResponse) ==
    IF HasContent(analysisResponse) THEN parseAIJSON(analysisResponse).obj
    ELSE DefaultAnalysis

AnalysisOf(analysisResponse) ==
    IF HasContent(analysisResponse) /\ parseAIJSON(analysisResponse).ok
    THEN parseAIJSON(analysisResponse).obj
    ELSE DefaultAnalysis

\* @/lib/input-validation is outside the sources: the validator rejects an
\* empty message and hands on the cleaned text
validateThought(userMessage) ==
    [valid |-> trim(userMessage) # "", sanitized |-> trim(userMessage)]

\* @/lib/crisis-detection is outside the sources: a black-box classifier
SEVERITY_LEVELS == {"LOW", "MEDIUM", "HIGH"}

\* Math.floor(conversationHistory.length / 2) + 1
TurnCount(conversationHistory) == (Len(conversationHistory) \div 2) + 1

notWords ==
    <<"built", "made", "cut out", "good", "smart", "capable", "worthy", "enough",
      "lovable", "deserving">>
amWords ==
    <<"a failure", "worthless", "hopeless", "broken", "fraud", "burden", "loser",
      "mess", "disappointment", "undesirable">>
neverWords == <<"be", "find", "get", "have", "become", "amount">>
noOneAux == <<"'s", " is", " will", " would", " can", " going to", " gonna">>
noOneVerbs == <<"love", "want", "care", "stay", "be there">>

\* runEngine.ts: the bank of six patterns
coreBeliefPatterns ==
    << << <<"i am not ">>, notWords >>,
       << <<"i'm not ">>, notWords >>,
       << <<"i am ">>, amWords >>,
       << <<"i'm ">>, amWords >>,
       << <<"i will never ">>, neverWords >>,
       << <<"i'll never ", "ill never ">>, neverWords >> >>

\* route.ts: the bank of thirty patterns
routeCoreBeliefPatterns ==
    << << <<"i am not ">>, notWords >>,
       << <<"i'm not ">>, notWords >>,
       << <<"i am ">>, amWords >>,
       << <<"i'm ">>, amWords >>,
       << <<"i can't ">>, <<"do", "be", "handle", "figure", "seem to", "ever">> >>,
       << <<"i ">>, <<"don't", "do not">>, <<" ">>,
          <<"deserve", "belong", "matter", "fit in">> >>,
       << <<"i will never ">>, neverWords >>,
       << <<"i'll never ", "ill never ">>, neverWords >>,
       << <<"nothing i ">>, <<"do", "try">>, <<" ">>,
          <<"matters", "works", "is enough", "ever">> >>,
       << <<"no one">>, noOneAux, <<" ">>, noOneVerbs >>,
       << <<"no-one", "noone">>, noOneAux, <<" ">>, noOneVerbs >>,
       << <<"nobody">>, noOneAux, <<" ">>, noOneVerbs >>,
       << <<"no one will ever">> >>,
       << <<"nobody will ever">> >>,
       << <<"everyone ">>, <<"leaves", "leaving", "left", "abandons">> >>,
       << <<"they're all ", "theyre all ">>, <<"going to", "gonna">>, <<" leave">> >>,
       << <<"i'll ", "ill ">>, <<"always", "forever">>, <<" be ">>,
          <<"alone", "lonely", "single">> >>,
       << <<"i will die alone">> >>,
       << <<"i've always been", "ive always been">> >>,
       << <<"i always ">>, <<"fail", "mess up", "screw up", "ruin", "destroy">> >>,
       << <<"everything i ">>, <<"do", "try">>, <<" ">>,
          <<"fails", "is wrong", "is not enough">> >>,
       << <<"that means i'm ", "that means im ">>, <<"not", "a", "an">> >>,
       << <<"that's just who i am", "thats just who i am">> >>,
       << <<"i don't ">>, <<"have any", "have no">>, <<" ">>,
          <<"worth", "value", "purpose">> >>,
       << <<"i ">>, <<"have no", "don't have any">>, <<" ">>,
          <<"business", "right", "place">> >>,
       << <<"i ">>, <<"feel", "think", "believe">>, <<" ">>, <<"like ", "">>,
          <<"i'm ", "im ">>, <<"not", "a", "an">> >>,
       << <<"i don't believe in ">>, <<"myself", "me">> >>,
       << <<"what's ", "whats ">>, <<"wrong", "the matter">>, <<" with me">> >>,
       << <<"why ">>, <<"can't", "do", "am">>, <<" i ">>, <<"not", "never", "always">> >>,
       << <<"i ">>, <<"give up", "quit", "can't do this anymore">> >> >>

\* coreBeliefPatterns.some(p => p.test(sanitizedMessage))
MatchesAnyPattern(text, patterns) ==
    LET s == toLowerCase(text) IN
    \E k \in 1..Len(patterns) : RegexSeq(s, patterns[k])

\* coreBeliefPatterns.some(p => p.test(sanitizedMessage)), per handler
userRevealedCoreBeliefTable ==
    [t \in KnownUserTexts |-> MatchesAnyPattern(t, coreBeliefPatterns)]
userRevealedCoreBelief_t(text) == userRevealedCoreBeliefTable[text]

routeUserRevealedCoreBeliefTable ==
    [t \in KnownUserTexts |-> MatchesAnyPattern(t, routeCoreBeliefPatterns)]
routeUserRevealedCoreBelief_t(text) == routeUserRevealedCoreBeliefTable[text]

\* effectiveLayer without the pattern override
effectiveLayerOf_turnsOnly(userRevealedCoreBelief, turnCount) ==
    IF turnCount <= 2 THEN "SURFACE"
    ELSE IF turnCount <= 4 THEN "TRANSITION"
    ELSE IF turnCount <= 6 THEN "EMOTION"
    ELSE "CORE_WOUND"

effectiveLayerOf(userRevealedCoreBelief, turnCount) ==
    IF userRevealedCoreBelief THEN "CORE_WOUND"
    ELSE IF turnCount <= 2 THEN "SURFACE"
    ELSE IF turnCount <= 4 THEN "TRANSITION"
    ELSE IF turnCount <= 6 THEN "EMOTION"
    ELSE "CORE_WOUND"

icebergLayerOf(effectiveLayer) ==
    IF effectiveLayer = "SURFACE" THEN "surface"
    ELSE IF effectiveLayer = "TRANSITION" THEN "trigger"
    ELSE IF effectiveLayer = "EMOTION" THEN "emotion"
    ELSE "coreBelief"

\* runEngine.ts, and the fallback return of route.ts
ProgressOf(userRevealedCoreBelief, turnCount) ==
    LET progressTurn == IF userRevealedCoreBelief THEN Max(turnCount, 7) ELSE turnCount
    IN  [progressScore |-> Min(progressTurn * 12, 100),
         surface |-> Min(progressTurn * 25, 100),
         trigger |-> Min(Max(0, progressTurn - 1) * 30, 100),
         emotion |-> Min(Max(0, progressTurn - 2) * 35, 100),
         coreBelief |-> IF userRevealedCoreBelief THEN 60
                        ELSE Min(Max(0, progressTurn - 4) * 30, 100)]

\* route.ts, the normal return
routeProgressOf(userRevealedCoreBelief, turnCount) ==
    LET effectiveTurnForProgress ==
            IF userRevealedCoreBelief THEN Max(turnCount, 7) ELSE turnCount
        coreBelief == Min(Max(0, effectiveTurnForProgress - 4) * 30, 100)
    IN  [progressScore |-> Min(effectiveTurnForProgress * 12, 100),
         surface |-> Min(effectiveTurnForProgress * 25, 100),
         trigger |-> Min(Max(0, effectiveTurnForProgress - 1) * 30, 100),
         emotion |-> Min(Max(0, effectiveTurnForProgress - 2) * 35, 100),
         coreBelief |-> IF userRevealedCoreBelief THEN Max(coreBelief, 60) ELSE coreBelief]

-----------------------------------------------------------------------------
(* route.ts: ensureAllLayers.  The three Math.random() draws are the       *)
(* parameter rnd, each an index into the option list it picks from.        *)

\* userText.trim().slice(0, 90)
Snippet(userText) == Take(trim(userText), 90)

acknowledgmentOptions(effectiveLayer, userText) ==
    LET snippet == Snippet(userText)
        snippetIsShort == Len(snippet) < 25
    IN  IF effectiveLayer = "CORE_WOUND"
        THEN <<"Ouch. That^s heavy to carry.",
               "That cuts deep.",
               "That^s a painful place to be -- and you^re naming it.",
               IF snippetIsShort THEN "\"" \o snippet \o "\" -- yeah. That hurts."
               ELSE "I get why this feels so sharp.">>
        ELSE <<"Okay.",
               "Yeah -- that makes sense.",
               "Got it.",
               IF snippetIsShort THEN "\"" \o snippet \o "\" -- noted."
               ELSE "Thanks for putting words to it.">>

patternNoteOptions(groundingMode, effectiveLayer, userText) ==
    IF groundingMode THEN <<"">>
    ELSE IF effectiveLayer = "CORE_WOUND"
        THEN <<"That belief shows up fast when the pressure hits.",
               "There^s a deep fear driving this.",
               "This lands at identity-level, not just a passing thought.">>
    ELSE IF detectRepeatedEffort_t(userText)
        THEN <<"This sounds less like a distortion and more like exhaustion.",
               "When effort keeps hitting walls, the mind reaches for a harsh explanation.">>
    ELSE <<"When the stakes feel high, the mind tries to \"solve\" it by predicting outcomes.",
           "When you^re depleted, thoughts get more absolute.">>

fallbackReframeOptions(effectiveLayer, analysis, userText) ==
    LET coreWound == toLowerCase_t(Str(analysis.core_wound))
        underlyingFear == toLowerCase_t(Str(analysis.underlying_fear))
        isAbandonment ==
            \/ includes(coreWound, "love") \/ includes(coreWound, "alon")
            \/ includes(underlyingFear, "love") \/ includes(underlyingFear, "alon")
        isFailure ==
            \/ includes(coreWound, "fail") \/ includes(coreWound, "enough")
            \/ includes(underlyingFear, "fail") \/ includes(underlyingFear, "enough")
    IN  IF effectiveLayer = "CORE_WOUND" THEN
            IF isAbandonment THEN <<"That fear is real -- but it doesn^t mean you^re unlovable.">>
            ELSE IF isFailure THEN <<"Not meeting expectations isn^t proof you^re a disappointment -- it^s pressure talking.">>
            ELSE <<"A painful moment can shake your confidence -- but it still doesn^t get to decide your worth.",
                   "It feels true right now -- but pressure can make it feel bigger than it is.">>
        ELSE IF detectRepeatedEffort_t(userText)
            THEN <<"Effort without results doesn^t erase the effort. Timing and constraints are real.",
                   "The harsh conclusion isn^t the only explanation here.">>
        ELSE <<"The feeling is real -- but the conclusion might be harsher than the facts support.",
               "It can make emotional sense and still not be the full picture.">>

\* typeof v === 'string' && v.trim()
NonBlankString(v) == v # Undefined /\ trim(v) # ""

\* the first of two values that is truthy, else the second: (a || b)
OrElse(a, b) == IF Truthy(a) THEN a ELSE b

\* the values the three draws can take; a draw whose pick is never read
\* (the model supplied the field, or grounding mode overrides it) is fixed at 1
RandomDraws(parsed, effectiveLayer, analysis, userText, groundingMode) ==
    [ack : IF NonBlankString(parsed.acknowledgment) THEN {1}
           ELSE 1..Len(acknowledgmentOptions(effectiveLayer, userText)),
     note : IF trim(Str(OrElse(parsed.patternNote, parsed.distortionExplanation))) # ""
            THEN {1}
            ELSE 1..Len(patternNoteOptions(groundingMode, effectiveLayer, userText)),
     reframe : IF groundingMode \/ Truthy(parsed.reframe) THEN {1}
               ELSE 1..Len(fallbackReframeOptions(effectiveLayer, analysis, userText))]

\* lines 896-937: the thought pattern of ensureAllLayers
\* the thought pattern inferred afresh, whatever the previous label
ThoughtPatternOf_fresh(parsed, effectiveLayer, userText, frozenThoughtPattern, previousDistortion, groundingMode, intent) ==
    LET lower == toLowerCase_t(userText)
        inferredFallbackPattern ==
            IF groundingMode THEN "" ELSE inferFallbackThoughtPattern_t(userText, effectiveLayer)
        rawPatternCandidate ==
            OrElse(normalizeThoughtPattern(OrElse(parsed.thoughtPattern, parsed.distortionType)),
                   inferredFallbackPattern)
        aiProvidedPattern ==
            IF NonBlankString(parsed.thoughtPattern)
                THEN normalizeThoughtPattern(parsed.thoughtPattern)
            ELSE IF NonBlankString(parsed.distortionType)
                THEN normalizeThoughtPattern(parsed.distortionType)
            ELSE ""
        previousIsSimilar ==
            \/ /\ previousDistortion = "Labeling"
               /\ includesAny(lower, <<"i am", "i'm", "i feel like i'm">>)
            \/ /\ previousDistortion = "Catastrophizing"
               /\ WordBoundaryMatch(lower, <<"worst", "ruin", "disaster", "end", "fired">>)
            \/ /\ previousDistortion = "All-or-nothing thinking"
               /\ WordBoundaryMatch(lower, <<"always", "never", "everything", "nothing",
                                             "either", "only", "completely", "totally">>)
        coerced ==
            adjustDistortionForIdentityStatement(userText, effectiveLayer,
                IF Truthy(frozenThoughtPattern)
                THEN normalizeThoughtPattern(frozenThoughtPattern)
                ELSE coerceThoughtPatternByLayer(rawPatternCandidate, effectiveLayer))
    IN  IF groundingMode THEN ""
        ELSE IF effectiveLayer = "CORE_WOUND" THEN
            IF Truthy(frozenThoughtPattern)
            THEN normalizeThoughtPattern(frozenThoughtPattern)
            ELSE "Core Belief"
        ELSE IF intent \in {"CALM", "LISTEN"} /\ aiProvidedPattern = "" THEN ""
        ELSE IF Truthy(previousDistortion) /\ previousDistortion # "Core Belief" THEN
            coerced
        ELSE coerced

ThoughtPatternOf(parsed, effectiveLayer, userText, frozenThoughtPattern, previousDistortion, groundingMode, intent) ==
    LET lower == toLowerCase_t(userText)
        inferredFallbackPattern ==
            IF groundingMode THEN "" ELSE inferFallbackThoughtPattern_t(userText, effectiveLayer)
        rawPatternCandidate ==
            OrElse(normalizeThoughtPattern(OrElse(parsed.thoughtPattern, parsed.distortionType)),
                   inferredFallbackPattern)
        aiProvidedPattern ==
            IF NonBlankString(parsed.thoughtPattern)
                THEN normalizeThoughtPattern(parsed.thoughtPattern)
            ELSE IF NonBlankString(parsed.distortionType)
                THEN normalizeThoughtPattern(parsed.distortionType)
            ELSE ""
        previousIsSimilar ==
            \/ /\ previousDistortion = "Labeling"
               /\ includesAny(lower, <<"i am", "i'm", "i feel like i'm">>)
            \/ /\ previousDistortion = "Catastrophizing"
               /\ WordBoundaryMatch(lower, <<"worst", "ruin", "disaster", "end", "fired">>)
            \/ /\ previousDistortion = "All-or-nothing thinking"
               /\ WordBoundaryMatch(lower, <<"always", "never", "everything", "nothing",
                                             "either", "only", "completely", "totally">>)
        coerced ==
            adjustDistortionForIdentityStatement(userText, effectiveLayer,
                IF Truthy(frozenThoughtPattern)
                THEN normalizeThoughtPattern(frozenThoughtPattern)
                ELSE coerceThoughtPatternByLayer(rawPatternCandidate, effectiveLayer))
    IN  IF groundingMode THEN ""
        ELSE IF effectiveLayer = "CORE_WOUND" THEN
            IF Truthy(frozenThoughtPattern)
            THEN normalizeThoughtPattern(frozenThoughtPattern)
            ELSE "Core Belief"
        ELSE IF intent \in {"CALM", "LISTEN"} /\ aiProvidedPattern = "" THEN ""
        ELSE IF Truthy(previousDistortion) /\ previousDistortion # "Core Belief" THEN
            IF previousIsSimilar THEN previousDistortion ELSE coerced
        ELSE coerced

ensureAllLayers(parsed, analysis, effectiveLayer, userText, previousReframes, previousQuestions, frozenThoughtPattern, previousDistortion, groundingMode, lastQuestionType, intent, rnd) ==
    LET options == patternNoteOptions(groundingMode, effectiveLayer, userText)
        priorNotesPool == previousQuestions \o previousReframes
        drawn == options[rnd.note]
        alts == {k \in 1..Len(options) :
                    options[k] # "" /\ ~isDuplicatePatternNote(options[k], priorNotesPool)}
        fallbackPatternNote ==
            IF drawn # "" /\ isDuplicatePatternNote(drawn, priorNotesPool) /\ alts # {}
            THEN options[CHOOSE k \in alts : \A j \in alts : k <= j]
            ELSE drawn
        fallbackReframe ==
            IF groundingMode
            THEN "You don^t have to solve everything right now -- just take the next breath."
            ELSE fallbackReframeOptions(effectiveLayer, analysis, userText)[rnd.reframe]
        fallbackEncouragement ==
            IF groundingMode THEN "Taking care of yourself is valid." ELSE ""
        acknowledgment ==
            IF NonBlankString(parsed.acknowledgment) THEN parsed.acknowledgment
            ELSE acknowledgmentOptions(effectiveLayer, userText)[rnd.ack]
        rawNote ==
            OrElse(parsed.patternNote, OrElse(parsed.distortionExplanation, fallbackPatternNote))
        patternNote ==
            IF groundingMode THEN ""
            ELSE IF effectiveLayer = "CORE_WOUND"
                THEN OrElse(compactOneSentence_t(rawNote), fallbackPatternNote)
            ELSE OrElse(compactTwoSentences_t(rawNote), fallbackPatternNote)
        sanitized ==
            sanitizeReframeAllLayers(OrElse(parsed.reframe, fallbackReframe),
                                     previousReframes, analysis, effectiveLayer)
        reframe ==
            IF isDuplicateReframe(sanitized, previousReframes)
            THEN IF groundingMode THEN "Let^s take one small breath here."
                 ELSE "Let^s pause for a second -- this is feeling more final than it actually is."
            ELSE sanitized
        questionValue == parsed.question
        rawQuestion == IF IsString(questionValue) THEN trim(questionValue) ELSE ""
        finalRawQuestion ==
            IF /\ intent \in {"LISTEN", "CALM"}
               /\ \/ ~Truthy(questionValue)
                  \/ IsString(questionValue) /\ trim(questionValue) = ""
            THEN "" ELSE rawQuestion
        question ==
            finalizeQuestion(finalRawQuestion, effectiveLayer, userText, previousQuestions,
                             groundingMode, lastQuestionType)
    IN  [acknowledgment |-> acknowledgment,
         thoughtPattern |-> ThoughtPatternOf(parsed, effectiveLayer, userText,
                                frozenThoughtPattern, previousDistortion, groundingMode, intent),
         patternNote |-> patternNote,
         reframe |-> reframe,
         question |-> question,
         encouragement |-> IF NonBlankString(parsed.encouragement)
                           THEN parsed.encouragement ELSE fallbackEncouragement,
         probingQuestion |-> question,
         icebergLayer |-> icebergLayerOf(effectiveLayer),
         layerInsight |-> OrElse(analysis.core_wound, OrElse(analysis.underlying_fear, ""))]

-----------------------------------------------------------------------------
(* The persistence path: api/messages POST writes the rows, the session    *)
(* PUT writes the engine columns, the session GET computes the context of  *)
(* the next request.  A row keeps the columns the engine reads back.       *)

\* toStringOrUndefined(v) ?? ''
toStringOrEmpty(v) == IF v = Undefined THEN "" ELSE trim(v)

\* api/messages POST with role 'user'
UserRow(text) ==
    [role |-> "user", content |-> text, thoughtPattern |-> "", reframe |-> "",
     question |-> "", isCrisisResponse |-> FALSE]

\* api/messages POST with role 'assistant': the structured columns; the
\* content column is JSON.stringify of the same structured object
AssistantRow(body) ==
    [role |-> "assistant", content |-> "",
     thoughtPattern |-> toStringOrEmpty(body.thoughtPattern),
     reframe |-> toStringOrEmpty(body.reframe),
     question |-> toStringOrEmpty(body.question),
     isCrisisResponse |-> body.isCrisisResponse]

\* msg.content of an assistant row as the reframe handler receives it
ContentOf(row) ==
    Reply("json", [NoFields EXCEPT !.thoughtPattern = row.thoughtPattern,
                                   !.reframe = row.reframe,
                                   !.question = row.question])

NewSession ==
    [messages |-> <<>>, originalTrigger |-> Undefined, groundingMode |-> FALSE,
     groundingTurns |-> 0, coreBeliefAlreadyDetected |-> FALSE,
     lastIntentUsed |-> Undefined]

RECURSIVE UniqFrom(_, _, _, _, _)
UniqFrom(items, i, seen, acc, limit) ==
    IF i > Len(items) \/ Len(acc) >= limit THEN acc
    ELSE LET n == normalizeForCompare_t(items[i]) IN
         IF n = "" \/ n \in seen THEN UniqFrom(items, i + 1, seen, acc, limit)
         ELSE UniqFrom(items, i + 1, seen \cup {n}, Append(acc, items[i]), limit)

uniqRecent(items, limit) == UniqFrom(items, 1, {}, <<>>, limit)

\* the trimmed non-blank values of one column, in row order
ColumnOf(rows, column) ==
    LET kept == SelectSeq(rows, LAMBDA m : trim(m[column]) # "")
    IN  [k \in 1..Len(kept) |-> trim(kept[k][column])]

computeSessionContext(s) ==
    LET assistantMsgs == TakeLast(SelectSeq(s.messages, LAMBDA m : m.role = "assistant"), 20)
        userMsgs == SelectSeq(s.messages, LAMBDA m : m.role = "user")
    IN  [present |-> TRUE,
         previousQuestions |-> uniqRecent(ColumnOf(assistantMsgs, "question"), 25),
         previousReframes |-> uniqRecent(ColumnOf(assistantMsgs, "reframe"), 25),
         previousDistortions |-> uniqRecent(ColumnOf(assistantMsgs, "thoughtPattern"), 10),
         originalTrigger |->
            IF s.originalTrigger # Undefined /\ trim(s.originalTrigger) # ""
            THEN trim(s.originalTrigger)
            ELSE IF Len(userMsgs) > 0 THEN userMsgs[1].content ELSE "",
         groundingMode |-> s.groundingMode,
         groundingTurns |-> s.groundingTurns,
         coreBeliefAlreadyDetected |-> s.coreBeliefAlreadyDetected,
         userIntent |-> IF Truthy(s.lastIntentUsed) THEN s.lastIntentUsed ELSE "AUTO"]

RECURSIVE HydrateFrom(_, _, _, _)
\* the loop of hydrateMemoryFromHistory over the recent assistant messages
HydrateFrom(msgs, i, previousQuestions, previousReframes) ==
    IF i > Len(msgs) THEN [questions |-> previousQuestions, reframes |-> previousReframes]
    ELSE LET parsedPrev == parseAIJSON(ContentOf(msgs[i]))
             q == parsedPrev.obj.question
             r == parsedPrev.obj.reframe
         IN  HydrateFrom(msgs, i + 1,
                IF Truthy(q) /\ trim(q) # "" /\ Len(previousQuestions) < 25
                THEN Append(previousQuestions, trim(q)) ELSE previousQuestions,
                IF Truthy(r) /\ trim(r) # "" /\ Len(previousReframes) < 25
                THEN Append(previousReframes, trim(r)) ELSE previousReframes)

hydrateMemoryFromHistory(conversationHistory, previousQuestions, previousReframes) ==
    HydrateFrom(TakeLast(SelectSeq(conversationHistory, LAMBDA m : m.role = "assistant"), 10),
                1, previousQuestions, previousReframes)

\* sessionContext?.originalTrigger ?? history.find(m => m.role === 'user')?.content ?? ''
originalTriggerOf(sessionContext, conversationHistory) ==
    LET userMsgs == SelectSeq(conversationHistory, LAMBDA m : m.role = "user") IN
    IF sessionContext.present /\ sessionContext.originalTrigger # Undefined
    THEN sessionContext.originalTrigger
    ELSE IF Len(userMsgs) > 0 THEN userMsgs[1].content ELSE ""

-----------------------------------------------------------------------------
(* The two request handlers, runEngine and the /api/reframe POST handler.  *)
(* Each stretch of code between two awaited callAI calls is one action.    *)

Entries == {"runEngine", "POST"}

NoRequest ==
    [userMessage |-> "", conversationHistory |-> <<>>, sessionContext |-> NoContext]

NoProgress ==
    [progressScore |-> 0, surface |-> 0, trigger |-> 0, emotion |-> 0, coreBelief |-> 0]

\* _meta; a field the handler does not set is Undefined (FALSE, 0)
NoMeta ==
    [provider |-> Undefined, turn |-> 0, effectiveLayer |-> Undefined,
     coreBeliefDetected |-> FALSE, intent |-> Undefined, state |-> Undefined,
     intervention |-> Undefined, confidence |-> 0]

NoLayers ==
    [acknowledgment |-> "", thoughtPattern |-> "", patternNote |-> "", reframe |-> "",
     question |-> "", encouragement |-> "", probingQuestion |-> "",
     icebergLayer |-> "", layerInsight |-> ""]

\* the response body: the nine layer fields and what the handler adds
Body(layers, isCrisisResponse, grounding, progress, meta) ==
    [acknowledgment |-> layers.acknowledgment, thoughtPattern |-> layers.thoughtPattern,
     patternNote |-> layers.patternNote, reframe |-> layers.reframe,
     question |-> layers.question, encouragement |-> layers.encouragement,
     probingQuestion |-> layers.probingQuestion, icebergLayer |-> layers.icebergLayer,
     layerInsight |-> layers.layerInsight, isCrisisResponse |-> isCrisisResponse,
     groundingMode |-> grounding.groundingMode, groundingTurns |-> grounding.groundingTurns,
     progress |-> progress, meta |-> meta]

\* status: "none" while the request runs, "ok", "invalid" (runEngine throws on
\* the validation, the POST handler answers 400) or "error" (runEngine throws a
\* TypeError, the POST handler catches it and answers 500)
Returned(status, body) == [status |-> status, body |-> body]
NoReturn == Returned("none", Body(NoLayers, FALSE, Grounding(FALSE, 0), NoProgress, NoMeta))

\* generateCrisisResponse(HIGH) of @/lib/crisis-detection, outside the sources
CrisisResources == "<crisis resources>"

\* the fixed payload both handlers return; it carries no grounding, progress
\* or _meta fields
CrisisPayload ==
    Body([acknowledgment |-> "You're sharing something really serious, and I want to make sure you get the right support.",
          thoughtPattern |-> "Crisis Response",
          patternNote |-> "Right now your safety is the priority.",
          reframe |-> "This moment doesn't define you. There are people trained to help.",
          question |-> "Would you like me to connect you with someone who can help right now?",
          encouragement |-> CrisisResources,
          probingQuestion |-> "Would you like to talk about what's bringing these feelings up?",
          icebergLayer |-> "surface",
          layerInsight |-> "Your safety matters most right now."],
         TRUE, Grounding(FALSE, 0), NoProgress, NoMeta)

\* if (crisisCheck.level === SEVERITY_LEVELS.HIGH), with the guard dropped
CrisisIntercepts_never(level) == FALSE

CrisisIntercepts(level) == level = "HIGH"

NoLocals ==
    [sanitizedMessage |-> "", crisisLevel |-> Undefined, turnCount |-> 0,
     intent |-> Undefined,
     groundingMode |-> FALSE, groundingTurns |-> 0, analysis |-> NoFields,
     userRevealedCoreBelief |-> FALSE, effectiveLayer |-> Undefined,
     decision |-> Decision(Undefined, Undefined, 0, FALSE),
     previousQuestions |-> <<>>, previousReframes |-> <<>>,
     previousDistortion |-> Undefined, lastQuestionType |-> "",
     frozenThoughtPattern |-> Undefined, coreBeliefJustDetected |-> FALSE,
     originalTrigger |-> "", responseFailed |-> FALSE, completeResponse |-> NoLayers]

\* the locals set before the first callAI: turnCount, intent, grounding
LocalsAtStart(sanitizedMessage, level) ==
    LET g == IF entry = "runEngine"
             THEN isInGroundingMode(req.sessionContext, sanitizedMessage)
             ELSE routeIsInGroundingMode(req.sessionContext, sanitizedMessage)
    IN  [NoLocals EXCEPT !.sanitizedMessage = sanitizedMessage,
                         !.crisisLevel = level,
                         !.turnCount = TurnCount(req.conversationHistory),
                         !.intent = resolveIntent(req.sessionContext),
                         !.groundingMode = g.groundingMode,
                         !.groundingTurns = g.groundingTurns]

\* runEngine.ts 474-511: the locals set between the analysis and the response call
EngineLocals(analysisResponse) ==
    LET revealed == userRevealedCoreBelief_t(loc.sanitizedMessage) IN
    [loc EXCEPT !.analysis = AnalysisOf(analysisResponse),
                !.userRevealedCoreBelief = revealed,
                !.effectiveLayer = effectiveLayerOf(revealed, loc.turnCount),
                !.decision = decideEngineState_t(loc.sanitizedMessage, loc.intent,
                                               loc.groundingMode),
                !.originalTrigger = originalTriggerOf(req.sessionContext,
                                                      req.conversationHistory)]

\* route.ts 1076-1156: the locals set between the analysis and the response call
RouteLocals(analysisResponse) ==
    LET revealed == routeUserRevealedCoreBelief_t(loc.sanitizedMessage)
        layer == effectiveLayerOf(revealed, loc.turnCount)
        sc == req.sessionContext
        memory == hydrateMemoryFromHistory(req.conversationHistory,
                                           sc.previousQuestions, sc.previousReframes)
        previousDistortion ==
            IF Len(sc.previousDistortions) > 0 THEN sc.previousDistortions[1] ELSE Undefined
        lastQuestion ==
            IF Len(sc.previousQuestions) > 0 THEN sc.previousQuestions[1] ELSE ""
    IN  [loc EXCEPT !.analysis = AnalysisOf(analysisResponse),
                    !.userRevealedCoreBelief = revealed,
                    !.effectiveLayer = layer,
                    !.previousQuestions = memory.questions,
                    !.previousReframes = memory.reframes,
                    !.originalTrigger = originalTriggerOf(sc, req.conversationHistory),
                    !.coreBeliefJustDetected = revealed /\ ~sc.coreBeliefAlreadyDetected,
                    !.previousDistortion = previousDistortion,
                    !.lastQuestionType =
                        IF isChoiceQuestionText_t(lastQuestion) THEN "choice"
                        ELSE IF lastQuestion # "" THEN "open" ELSE "",
                    !.frozenThoughtPattern =
                        IF layer = "CORE_WOUND"
                        THEN normalizeThoughtPattern(
                                IF previousDistortion = Undefined THEN "Core Belief"
                                ELSE previousDistortion)
                        ELSE Undefined]

\* question = decision.askQuestion ? (parsed?.question || '').trim() : '',
\* with the test of askQuestion dropped
EngineQuestion_unguarded(decision, parsed) == trim(OrElse(parsed.question, ""))

EngineQuestion(decision, parsed) ==
    IF decision.askQuestion THEN trim(OrElse(parsed.question, "")) ELSE ""

\* runEngine.ts 551: .trim() is called on a question that is not a string
EngineQuestionThrows(decision, parsed) ==
    decision.askQuestion /\ parsed.question = JsonNumber

\* route.ts 855-856: .toLowerCase() is called on a field of the analysis that
\* is not a string
EnsureThrows(analysis) ==
    analysis.core_wound = JsonNumber \/ analysis.underlying_fear = JsonNumber

\* runEngine.ts 535-593: the value runEngine returns
RunEngineOutput(responseResult) ==
    LET parsed == IF HasContent(responseResult) THEN parseAIJSON(responseResult).obj
                  ELSE NoFields
        question == EngineQuestion(loc.decision, parsed)
    IN  Body([acknowledgment |-> OrElse(parsed.acknowledgment, "Thanks for sharing that."),
              thoughtPattern |-> OrElse(parsed.thoughtPattern, OrElse(parsed.distortionType, "")),
              patternNote |-> OrElse(parsed.patternNote, OrElse(parsed.distortionExplanation, "")),
              reframe |-> OrElse(parsed.reframe, ""),
              question |-> question,
              encouragement |-> OrElse(parsed.encouragement, ""),
              probingQuestion |-> question,
              icebergLayer |-> icebergLayerOf(loc.effectiveLayer),
              layerInsight |-> OrElse(parsed.layerInsight,
                                  OrElse(loc.analysis.core_wound,
                                      OrElse(loc.analysis.underlying_fear, "")))],
             FALSE, Grounding(loc.groundingMode, loc.groundingTurns),
             ProgressOf(loc.userRevealedCoreBelief, loc.turnCount),
             [provider |-> IF responseResult.kind = "null" THEN Undefined ELSE "provider",
              turn |-> loc.turnCount, effectiveLayer |-> loc.effectiveLayer,
              coreBeliefDetected |-> loc.userRevealedCoreBelief, intent |-> loc.intent,
              state |-> loc.decision.state, intervention |-> loc.decision.intervention,
              confidence |-> loc.decision.confidence])

\* route.ts 1285-1310: the normal return of the POST handler
RouteOutput(completeResponse) ==
    Body(completeResponse, FALSE, Grounding(loc.groundingMode, loc.groundingTurns),
         routeProgressOf(loc.userRevealedCoreBelief, loc.turnCount),
         [NoMeta EXCEPT !.provider = "provider", !.turn = loc.turnCount,
                        !.effectiveLayer = loc.effectiveLayer,
                        !.coreBeliefDetected = loc.userRevealedCoreBelief,
                        !.intent = loc.intent])

\* route.ts 1211-1227: the return after the response call failed twice
RouteFallbackOutput(fallbackResponse) ==
    Body(fallbackResponse, FALSE, Grounding(loc.groundingMode, loc.groundingTurns),
         ProgressOf(loc.userRevealedCoreBelief, loc.turnCount),
         [NoMeta EXCEPT !.provider = "fallback", !.turn = loc.turnCount,
                        !.effectiveLayer = loc.effectiveLayer, !.intent = loc.intent])

\* ensureAllLayers on the locals of the POST handler
EnsureWith(parsed, rnd) ==
    ensureAllLayers(parsed, loc.analysis, loc.effectiveLayer, loc.sanitizedMessage,
                    loc.previousReframes, loc.previousQuestions, loc.frozenThoughtPattern,
                    loc.previousDistortion, loc.groundingMode, loc.lastQuestionType,
                    loc.intent, rnd)

Draws(parsed) ==
    RandomDraws(parsed, loc.effectiveLayer, loc.analysis, loc.sanitizedMessage,
                loc.groundingMode)

\* the handler returns body
Return(body) ==
    /\ returned' = Returned("ok", body)
    /\ pc' = "done"

\* a TypeError ends the request: runEngine rejects, the catch block of the POST
\* handler (route.ts 1311-1314) answers 500
Throw ==
    /\ returned' = Returned("error", NoReturn.body)
    /\ pc' = "done"

\* if (!validation.valid), with the test dropped
InvalidInput_never(validation) == FALSE

\* if (!validation.valid): runEngine throws, the POST handler answers 400
InvalidInput(validation) == ~validation.valid

\* validation and the crisis check: the code before the first callAI; the
\* checker is a black box that rates the message with one of levels
HandlerStart(levels) ==
    /\ pc = "received"
    /\ LET validation == validateThought(req.userMessage) IN
       IF InvalidInput(validation)
       THEN /\ returned' = Returned("invalid", NoReturn.body)
            /\ pc' = "done"
            /\ UNCHANGED loc
       ELSE \E level \in levels :
            IF CrisisIntercepts(level)
            THEN /\ Return(CrisisPayload)
                 /\ loc' = [NoLocals EXCEPT !.sanitizedMessage = validation.sanitized,
                                            !.crisisLevel = level]
            ELSE /\ loc' = LocalsAtStart(validation.sanitized, level)
                 /\ pc' = "analysis"
                 /\ UNCHANGED returned
    /\ UNCHANGED <<session, entry, req, calls, pfn, pin, pout>>

\* { role: msg.role, content: msg.content || '' }; the content of a stored row
\* is kept as the row's columns
HistoryMessage(msg) == [role |-> msg.role, content |-> msg]

\* conversationHistory.slice(-6).forEach(msg => messages.push(...)), with
\* slice(-6) replaced by the whole history
SentHistory_all(conversationHistory) ==
    [k \in 1..Len(conversationHistory) |-> HistoryMessage(conversationHistory[k])]

\* conversationHistory.slice(-6).forEach(msg => messages.push(...))
SentHistory(conversationHistory) ==
    LET recent == TakeLast(conversationHistory, 6)
    IN  [k \in 1..Len(recent) |-> HistoryMessage(recent[k])]

\* the messages array of a call: the system prompt of the phase, then for an
\* analysis or response call the recent history and the current user message
MessagesOf(phase) ==
    LET prompt == CASE phase = "analysis" -> "buildAnalysisPrompt"
                    [] phase = "response" -> "buildResponsePrompt"
                    [] OTHER -> "regenPrompt"
        system == [role |-> "system", content |-> [prompt |-> prompt]]
    IN  IF phase = "regenerate" THEN <<system>>
        ELSE <<system>> \o SentHistory(req.conversationHistory)
                \o <<[role |-> "user", content |-> UserRow(loc.sanitizedMessage)]>>

\* one callAI invocation: the phase that made it, the messages it was given
\* and what it resolved to
Call(phase, reply) == [phase |-> phase, reply |-> reply.kind, messages |-> MessagesOf(phase)]

\* const previousQuestions = sessionContext?.previousQuestions ?? []: the
\* caller's array itself where the context has one
SpreadCopy_sameArray(list) == [items |-> list, own |-> FALSE]

\* [...(sessionContext?.previousQuestions ?? [])]: a new array with the items
\* of the caller's
SpreadCopy(list) == [items |-> list, own |-> TRUE]

\* the caller's array after the items of ref became pushed: push works in
\* place, so the caller sees it unless ref is an array of its own
CallerArray(supplied, ref, pushed) == IF ref.own THEN supplied ELSE pushed

\* the request as its caller sees it after route.ts 1135-1137; without a
\* context the arrays are new ones
RequestAfterHydration ==
    LET sc == req.sessionContext
        memory == hydrateMemoryFromHistory(req.conversationHistory,
                                           sc.previousQuestions, sc.previousReframes)
    IN  IF ~sc.present THEN req
        ELSE [req EXCEPT
                !.sessionContext.previousQuestions =
                    CallerArray(@, SpreadCopy(@), memory.questions),
                !.sessionContext.previousReframes =
                    CallerArray(@, SpreadCopy(@), memory.reframes)]

\* the code from the end of the analysis phase to the response call
AfterAnalysis(analysisResponse) ==
    /\ loc' = IF entry = "runEngine" THEN EngineLocals(analysisResponse)
              ELSE RouteLocals(analysisResponse)
    /\ req' = IF entry = "runEngine" THEN req ELSE RequestAfterHydration
    /\ pc' = "response"

\* let analysisResponse = await callAI(analysisMessages)
AnalysisCall(replies) ==
    /\ pc = "analysis"
    /\ \E reply \in replies :
        /\ calls' = Append(calls, Call("analysis", reply))
        /\ IF HasContent(reply) THEN AfterAnalysis(reply)
           ELSE pc' = "analysisRetry" /\ UNCHANGED <<loc, req>>
    /\ UNCHANGED <<session, entry, returned, pfn, pin, pout>>

\* if (!analysisResponse?.content) analysisResponse = await callAI(analysisMessages)
AnalysisRetry(replies) ==
    /\ pc = "analysisRetry"
    /\ \E reply \in replies :
        /\ calls' = Append(calls, Call("analysis", reply))
        /\ AfterAnalysis(reply)
    /\ UNCHANGED <<session, entry, returned, pfn, pin, pout>>

\* the code after a response call that brought content
AfterResponse(responseResult) ==
    IF entry = "runEngine"
    THEN /\ IF EngineQuestionThrows(loc.decision, parseAIJSON(responseResult).obj)
            THEN Throw
            ELSE Return(RunEngineOutput(responseResult))
         /\ UNCHANGED loc
    ELSE IF EnsureThrows(loc.analysis)
    THEN Throw /\ UNCHANGED loc
    ELSE \E rnd \in Draws(parseAIJSON(responseResult).obj) :
         LET completeResponse == EnsureWith(parseAIJSON(responseResult).obj, rnd) IN
         IF needsRegeneration(completeResponse, loc.previousReframes, loc.previousQuestions)
         THEN /\ loc' = [loc EXCEPT !.completeResponse = completeResponse]
              /\ pc' = "regenerate"
              /\ UNCHANGED returned
         ELSE Return(RouteOutput(completeResponse)) /\ UNCHANGED loc

\* let responseResult = await callAI(responseMessages)
ResponseCall(replies) ==
    /\ pc = "response"
    /\ \E reply \in replies :
        /\ calls' = Append(calls, Call("response", reply))
        /\ IF HasContent(reply) THEN AfterResponse(reply)
           ELSE pc' = "responseRetry" /\ UNCHANGED <<loc, returned>>
    /\ UNCHANGED <<session, entry, req, pfn, pin, pout>>

\* if (!responseResult?.content) responseResult = await callAI(responseMessages)
ResponseRetry(replies) ==
    /\ pc = "responseRetry"
    /\ \E reply \in replies :
        /\ calls' = Append(calls, Call("response", reply))
        /\ IF HasContent(reply) THEN AfterResponse(reply)
           ELSE IF entry = "runEngine"
           THEN Return(RunEngineOutput(reply)) /\ UNCHANGED loc
           ELSE /\ loc' = [loc EXCEPT !.responseFailed = TRUE]
                /\ pc' = "regenerate"
                /\ UNCHANGED returned
    /\ UNCHANGED <<session, entry, req, pfn, pin, pout>>

\* regenerateFieldsFresh and the code after it, at its two call sites
RegenerateFieldsFresh(replies) ==
    /\ pc = "regenerate"
    /\ \E reply \in replies :
        /\ calls' = Append(calls, Call("regenerate", reply))
        /\ LET regenParsed == IF HasContent(reply) THEN parseAIJSON(reply)
                              ELSE [ok |-> FALSE, obj |-> NoFields]
           IN  IF EnsureThrows(loc.analysis) /\ (loc.responseFailed \/ regenParsed.ok)
               THEN Throw
               ELSE IF loc.responseFailed
               THEN \E rnd \in Draws(regenParsed.obj) :
                       Return(RouteFallbackOutput(EnsureWith(regenParsed.obj, rnd)))
               ELSE IF regenParsed.ok
               THEN \E rnd \in Draws(regenParsed.obj) :
                       Return(RouteOutput(EnsureWith(regenParsed.obj, rnd)))
               ELSE Return(RouteOutput(loc.completeResponse))
    /\ UNCHANGED <<session, entry, req, loc, pfn, pin, pout>>

-----------------------------------------------------------------------------
(* The caller.  The client is outside the sources: it sends the message    *)
(* with the whole history and the context the session GET computes, with   *)
(* the intent the user picked; it stores the user message and the returned *)
(* output as rows and writes the returned engine state with the session    *)
(* PUT.                                                                    *)

SessionIdle ==
    /\ pc = "idle"
    /\ session = NewSession
    /\ req = NoRequest
    /\ loc = NoLocals
    /\ calls = <<>>
    /\ returned = NoReturn

ClientSend(texts, intents, maxTurns) ==
    /\ pc = "idle"
    /\ Len(session.messages) < 2 * maxTurns
    /\ \E text \in texts, intent \in intents :
        req' = [userMessage |-> text,
                conversationHistory |-> session.messages,
                sessionContext |-> [computeSessionContext(session) EXCEPT !.userIntent = intent]]
    /\ pc' = "received"
    /\ UNCHANGED <<session, entry, loc, calls, returned, pfn, pin, pout>>

\* the session PUT: only the provided fields are updated; a crisis payload
\* provides none
SessionAfterPut(s, body) ==
    IF body.isCrisisResponse THEN s
    ELSE [s EXCEPT !.groundingMode = body.groundingMode,
                   !.groundingTurns = Max(0, body.groundingTurns),
                   !.coreBeliefAlreadyDetected = @ \/ body.meta.coreBeliefDetected]

ClientPersist ==
    /\ pc = "done"
    /\ session' =
        IF returned.status = "ok"
        THEN [SessionAfterPut(session, returned.body) EXCEPT
                !.messages = @ \o <<UserRow(req.userMessage), AssistantRow(returned.body)>>]
        ELSE session
    /\ pc' = "idle"
    /\ req' = NoRequest
    /\ loc' = NoLocals
    /\ calls' = <<>>
    /\ returned' = NoReturn
    /\ UNCHANGED <<entry, pfn, pin, pout>>

NoResult == [none |-> TRUE]

\* the variables of SpecPure, at rest in the session specifications
PureIdle ==
    /\ pfn = ""
    /\ pin = NoResult
    /\ pout = NoResult

-----------------------------------------------------------------------------
(* Spec: sessions of up to MaxTurns turns through either handler.          *)

MaxTurns == 3

SessionTexts == {PlainText, CoreBeliefText}
SessionIntents == {"AUTO"}
SessionLevels == {"LOW", "HIGH"}

AnalysisReplies == {NullReply, Reply("json", AnalysisJSON)}
ResponseReplies == {NullReply, Reply("json", RepeatingJSON)}

Init ==
    /\ SessionIdle
    /\ entry \in Entries
    /\ PureIdle

Next ==
    \/ ClientSend(SessionTexts, SessionIntents, MaxTurns)
    \/ HandlerStart(SessionLevels)
    \/ AnalysisCall(AnalysisReplies)
    \/ AnalysisRetry(AnalysisReplies)
    \/ ResponseCall(ResponseReplies)
    \/ ResponseRetry(ResponseReplies)
    \/ RegenerateFieldsFresh(ResponseReplies)
    \/ ClientPersist

Spec == Init /\ [][Next]_vars

-----------------------------------------------------------------------------
(* Claims about sessions, checked on Spec.                                 *)

\* a handler has returned an output that is not the crisis payload
Answered ==
    pc = "done" /\ returned.status = "ok" /\ ~returned.body.isCrisisResponse

\* the rows of the outputs the session stored before the request, crisis
\* payloads apart
EarlierOutputs ==
    {k \in 1..Len(session.messages) :
        /\ session.messages[k].role = "assistant"
        /\ ~session.messages[k].isCrisisResponse}

\* C2: in a session of the POST handler no returned output repeats, after
\* normalisation, the reframe of an earlier returned output.  (Stated on the
\* outputs other than the crisis payload, whose reframe is one fixed line.)
C2_NoRepeatedReframe ==
    (entry = "POST" /\ Answered) =>
        \A k \in EarlierOutputs :
            normalizeForCompare_t(session.messages[k].reframe)
                # normalizeForCompare_t(returned.body.reframe)

\* C3: in a session of the POST handler a returned question that is not empty
\* differs, after normalisation, from every question in the previousQuestions
\* the request carried.
C3_NoRepeatedQuestion ==
    (entry = "POST" /\ Answered /\ returned.body.question # "") =>
        \A k \in 1..Len(req.sessionContext.previousQuestions) :
            normalizeForCompare_t(req.sessionContext.previousQuestions[k])
                # normalizeForCompare_t(returned.body.question)

\* an earlier message of the session matched a core-belief pattern of the handler
EarlierCoreBelief ==
    \E k \in 1..Len(session.messages) :
        /\ session.messages[k].role = "user"
        /\ IF entry = "runEngine"
           THEN userRevealedCoreBelief_t(session.messages[k].content)
           ELSE routeUserRevealedCoreBelief_t(session.messages[k].content)

\* C4: once an earlier message matched a core-belief pattern and the request
\* carries coreBeliefAlreadyDetected = true, the effective layer of the request
\* is CORE_WOUND, in runEngine and in the POST handler.
C4_CoreWoundSticky ==
    (Answered /\ EarlierCoreBelief /\ req.sessionContext.coreBeliefAlreadyDetected) =>
        returned.body.meta.effectiveLayer = "CORE_WOUND"

\* C5: an output of the POST handler other than the crisis payload has the
\* thought pattern 'Core Belief' exactly when the effective layer is CORE_WOUND.
C5_CoreBeliefIffCoreWound ==
    (entry = "POST" /\ Answered) =>
        (returned.body.thoughtPattern = "Core Belief"
            <=> returned.body.meta.effectiveLayer = "CORE_WOUND")

\* the values of one column in the assistant rows the request was sent with,
\* in the order the rows were stored
StoredColumn(column) ==
    ColumnOf(SelectSeq(req.conversationHistory, LAMBDA m : m.role = "assistant"), column)

\* a list of the context is empty or starts with the latest stored value
LatestFirst(list, column) ==
    list # <<>> => list[1] = StoredColumn(column)[Len(StoredColumn(column))]

\* C20: the lists previousQuestions, previousReframes and previousDistortions
\* that computeSessionContext builds hold at most 25, 25 and 10 entries and are
\* ordered most-recent-first: element [0] is the value of the latest prior
\* assistant output, so that what the handler reads from element [0] describes
\* the most recent prior turn.
C20_MostRecentFirst ==
    pc = "received" =>
        /\ Len(req.sessionContext.previousQuestions) <= 25
        /\ Len(req.sessionContext.previousReframes) <= 25
        /\ Len(req.sessionContext.previousDistortions) <= 10
        /\ LatestFirst(req.sessionContext.previousQuestions, "question")
        /\ LatestFirst(req.sessionContext.previousReframes, "reframe")
        /\ LatestFirst(req.sessionContext.previousDistortions, "thoughtPattern")

\* what the code builds instead: element [0] is the oldest stored value
C20_OldestFirst ==
    pc = "received" =>
        /\ Len(req.sessionContext.previousQuestions) <= 25
        /\ Len(req.sessionContext.previousReframes) <= 25
        /\ Len(req.sessionContext.previousDistortions) <= 10
        /\ \A column \in {"question", "reframe", "thoughtPattern"} :
            LET list == CASE column = "question" -> req.sessionContext.previousQuestions
                          [] column = "reframe" -> req.sessionContext.previousReframes
                          [] OTHER -> req.sessionContext.previousDistortions
            IN  list # <<>> => list[1] = StoredColumn(column)[1]

-----------------------------------------------------------------------------
(* The progress floor over a session (Spec).                               *)

\* C28: the progress floor persists across a session: once a core belief has
\* been detected on an earlier request (the caller passes
\* coreBeliefAlreadyDetected = true), every later request computes progress
\* with turn >= 7, so that progressScore is at least 84 and never drops below
\* the value returned on the detecting request (84 in sessions this short).
C28_ProgressFloorPersists ==
    Answered /\ req.sessionContext.coreBeliefAlreadyDetected =>
        returned.body.progress.progressScore >= 84

\* what does hold: the floor is that of the current message alone
C28_FloorOfCurrentMessage ==
    Answered =>
        returned.body.progress.progressScore =
            Min(12 * (IF loc.userRevealedCoreBelief THEN Max(loc.turnCount, 7)
                      ELSE loc.turnCount), 100)

-----------------------------------------------------------------------------
(* SpecSession: the sessions of Spec with, between two requests, session   *)
(* PUT requests of any caller that provide originalTrigger.                *)

\* a field that the body of a request does not carry
Absent == <<>>

\* a field that the body carries, with its value
Given(v) == <<v>>

\* the body of a session PUT that provides no field
NoPutBody ==
    [coreBeliefAlreadyDetected |-> Absent, groundingMode |-> Absent,
     groundingTurns |-> Absent, lastIntentUsed |-> Absent, originalTrigger |-> Absent]

\* the session PUT: data: { column: field === undefined ? undefined : field },
\* a provided field replaces the column, a null (Undefined) included
PUT(s, body) ==
    [s EXCEPT
        !.coreBeliefAlreadyDetected =
            IF body.coreBeliefAlreadyDetected = Absent THEN @
            ELSE body.coreBeliefAlreadyDetected[1],
        !.groundingMode = IF body.groundingMode = Absent THEN @ ELSE body.groundingMode[1],
        !.groundingTurns =
            IF body.groundingTurns = Absent THEN @ ELSE Max(0, body.groundingTurns[1]),
        !.lastIntentUsed = IF body.lastIntentUsed = Absent THEN @ ELSE body.lastIntentUsed[1],
        !.originalTrigger = IF body.originalTrigger = Absent THEN @ ELSE body.originalTrigger[1]]

\* a session PUT request whose body provides originalTrigger
SessionPUT(triggers) ==
    /\ pc = "idle"
    /\ \E t \in triggers :
        session' = PUT(session, [NoPutBody EXCEPT !.originalTrigger = Given(t)])
    /\ UNCHANGED <<entry, pc, req, loc, calls, returned, pfn, pin, pout>>

\* the values of originalTrigger in a PUT body: null and two texts
PutTriggers == {Undefined, PlainText, CoreBeliefText}

NextSession ==
    \/ ClientSend(SessionTexts, SessionIntents, MaxTurns)
    \/ HandlerStart(SessionLevels)
    \/ AnalysisCall(AnalysisReplies)
    \/ AnalysisRetry(AnalysisReplies)
    \/ ResponseCall(ResponseReplies)
    \/ ResponseRetry(ResponseReplies)
    \/ RegenerateFieldsFresh(ResponseReplies)
    \/ ClientPersist
    \/ SessionPUT(PutTriggers)

SpecSession == Init /\ [][NextSession]_vars

\* the session's originalTrigger column holds a non-empty value
TriggerSet(s) == s.originalTrigger # Undefined /\ trim(s.originalTrigger) # ""

\* C21: once a session's originalTrigger has been set to a non-empty value, no
\* later operation on the session changes it: the session PUT (and GET) never
\* replace or clear a set value, and every later engine request uses that value.
C21_TriggerFixed ==
    [][TriggerSet(session) => session'.originalTrigger = session.originalTrigger]_vars

\* what does hold: a request is sent with the trimmed stored value when one is
\* set and with the first stored user message otherwise, and both handlers
\* use the value they were sent
C21_RequestUsesStoredTrigger ==
    /\ pc = "received" =>
        req.sessionContext.originalTrigger =
            IF TriggerSet(session) THEN trim(session.originalTrigger)
            ELSE IF session.messages # <<>> THEN session.messages[1].content ELSE ""
    /\ pc \in {"response", "responseRetry", "regenerate", "done"} /\ loc.effectiveLayer # Undefined =>
        loc.originalTrigger = req.sessionContext.originalTrigger

-----------------------------------------------------------------------------
(* SpecOwner: one stored session and the GET, PUT and DELETE requests on   *)
(* it of four callers: its owner, another user, a signed-in caller without *)
(* a user record, and a caller who is not signed in.                       *)

\* the ids auth() yields, and the user records they belong to
OwnerClerk == "clerk_owner"
OtherClerk == "clerk_other"
Callers == {Undefined, "clerk_unknown", OwnerClerk, OtherClerk}

\* db.user.findUnique({ where: { clerkId: userId } })
UserOf(userId) ==
    IF userId = OwnerClerk THEN "user_owner"
    ELSE IF userId = OtherClerk THEN "user_other"
    ELSE Undefined

\* the stored session with the user it belongs to; stored is false once the
\* row is deleted
OwnedSession ==
    [messages |-> <<>>, originalTrigger |-> Undefined, groundingMode |-> FALSE,
     groundingTurns |-> 0, coreBeliefAlreadyDetected |-> FALSE,
     lastIntentUsed |-> Undefined, userId |-> "user_owner", stored |-> TRUE]

\* NextResponse.json(body, { status })
Json(status, body) == [status |-> status, body |-> body]

\* the check the handlers share: 401 without userId, 404 without a user record
Rejection(userId) ==
    IF userId = Undefined THEN Json(401, "Unauthorized")
    ELSE IF UserOf(userId) = Undefined THEN Json(404, "User not found")
    ELSE Json(200, "")

\* db.session.findFirst({ where: { id, userId: user.id } })
SessionGET(callers) ==
    /\ pc = "idle"
    /\ \E userId \in callers :
        /\ req' = [method |-> "GET", userId |-> userId, body |-> NoPutBody]
        /\ returned' =
             IF Rejection(userId).status # 200 THEN Rejection(userId)
             ELSE IF session.stored /\ session.userId = UserOf(userId)
                  THEN Json(200, session)
             ELSE Json(404, "Session not found")
    /\ UNCHANGED <<session, entry, pc, loc, calls, pfn, pin, pout>>

\* db.session.update({ where: { id }, data }): the row with this id,
\* whichever user it belongs to; without a row the update throws
SessionPUTBy(callers, bodies) ==
    /\ pc = "idle"
    /\ \E userId \in callers, body \in bodies :
        /\ req' = [method |-> "PUT", userId |-> userId, body |-> body]
        /\ IF Rejection(userId).status # 200
           THEN returned' = Rejection(userId) /\ UNCHANGED session
           ELSE IF ~session.stored
           THEN returned' = Json(500, "Failed to update session") /\ UNCHANGED session
           ELSE /\ session' = PUT(session, body)
                /\ returned' = Json(200, session')
    /\ UNCHANGED <<entry, pc, loc, calls, pfn, pin, pout>>

\* db.session.deleteMany({ where: { id, userId: user.id } })
SessionDELETE(callers) ==
    /\ pc = "idle"
    /\ \E userId \in callers :
        /\ req' = [method |-> "DELETE", userId |-> userId, body |-> NoPutBody]
        /\ IF Rejection(userId).status # 200
           THEN returned' = Rejection(userId) /\ UNCHANGED session
           ELSE /\ session' = IF session.userId = UserOf(userId)
                              THEN [session EXCEPT !.stored = FALSE] ELSE session
                /\ returned' = Json(200, "success")
    /\ UNCHANGED <<entry, pc, loc, calls, pfn, pin, pout>>

\* the bodies of the PUT requests: no field, the grounding fields, one of the
\* other fields of the engine state
PutBodies ==
    { NoPutBody } \cup
    { [NoPutBody EXCEPT !.groundingMode = Given(g), !.groundingTurns = Given(t)] :
        g \in BOOLEAN, t \in 0..2 } \cup
    { [NoPutBody EXCEPT !.coreBeliefAlreadyDetected = Given(TRUE)],
      [NoPutBody EXCEPT !.lastIntentUsed = Given("CALM")],
      [NoPutBody EXCEPT !.originalTrigger = Given(PlainText)] }

InitOwner ==
    /\ entry = "POST"
    /\ pc = "idle"
    /\ session = OwnedSession
    /\ req = NoRequest
    /\ loc = NoLocals
    /\ calls = <<>>
    /\ returned = NoReturn
    /\ PureIdle

NextOwner ==
    \/ SessionGET(Callers)
    \/ SessionPUTBy(Callers, PutBodies)
    \/ SessionDELETE(Callers)

SpecOwner == InitOwner /\ [][NextOwner]_vars

\* the step handles a request of a caller other than the owner of the session
ByAnother(method) == req'.method = method /\ req'.userId # OwnerClerk

\* C36: the engine state of a session (groundingMode, groundingTurns,
\* coreBeliefAlreadyDetected, originalTrigger, lastIntentUsed) can be changed
\* through the session PUT handler only by the authenticated user who owns
\* the session: a PUT of a different authenticated user leaves the session
\* unchanged.
C36_OwnerOnlyPUT == [][ByAnother("PUT") => session' = session]_vars

\* what does hold: a caller who is not signed in or has no user record
\* changes nothing, DELETE of another user changes nothing, and GET shows the
\* session to its owner alone
C36_OwnerOnlyGetDelete ==
    [][/\ ByAnother("DELETE") => session' = session
       /\ (ByAnother("PUT") /\ req'.userId # OtherClerk) => session' = session
       /\ ByAnother("GET") => returned'.status # 200 /\ session' = session]_vars

\* another user has put the session into grounding mode
C36_WitnessForeignPUT ==
    /\ req # NoRequest
    /\ req.method = "PUT" /\ req.userId = OtherClerk
    /\ req.body.groundingMode = Given(TRUE)
    /\ returned.status = 200
    /\ session.userId = "user_owner" /\ session.groundingMode
    /\ ~OwnedSession.groundingMode

-----------------------------------------------------------------------------
(* SpecGrounding: sessions of runEngine in which the user asks for         *)
(* grounding or not, every gateway call bringing content.                  *)

MaxGroundingTurns == 5

GroundingSessionTexts == {PlainText, GroundingText}

InitGrounding ==
    /\ SessionIdle
    /\ entry = "runEngine"
    /\ PureIdle

NextGrounding ==
    \/ ClientSend(GroundingSessionTexts, SessionIntents, MaxGroundingTurns)
    \/ HandlerStart(SessionLevels)
    \/ AnalysisCall({Reply("json", AnalysisJSON)})
    \/ ResponseCall({Reply("json", RepeatingJSON)})
    \/ ClientPersist

SpecGrounding == InitGrounding /\ [][NextGrounding]_vars

\* over the first n turns of the session, the crisis payloads apart (they carry
\* no grounding fields): whether a message had a grounding indicator, and how
\* many messages without one have followed the last that had
RECURSIVE IndicatorRun(_)
IndicatorRun(n) ==
    IF n = 0 THEN [indicator |-> FALSE, free |-> 0]
    ELSE IF session.messages[2 * n].isCrisisResponse THEN IndicatorRun(n - 1)
    ELSE IF userChoseGrounding(session.messages[2 * n - 1].content)
        THEN [indicator |-> TRUE, free |-> 0]
    ELSE [IndicatorRun(n - 1) EXCEPT !.free = @ + 1]

\* the same with the message of the running request counted in
IndicatorRunNow ==
    IF userChoseGrounding(req.userMessage) THEN [indicator |-> TRUE, free |-> 0]
    ELSE [IndicatorRun(Len(session.messages) \div 2) EXCEPT !.free = @ + 1]

\* C8: from (false, 0), with the returned grounding fields fed back, the turn
\* counter stays in 0..3 and the mode is on exactly when it is at least 1; a
\* message with an indicator returns (true, 1), the first and second messages
\* without one after it return (true, 2) and (true, 3), and the third returns
\* (false, 0).
C8_GroundingExpires ==
    /\ session.groundingTurns \in 0..3
    /\ session.groundingMode <=> session.groundingTurns >= 1
    /\ (entry = "runEngine" /\ Answered) =>
        LET run == IndicatorRunNow IN
        /\ returned.body.groundingTurns \in 0..3
        /\ returned.body.groundingMode <=> returned.body.groundingTurns >= 1
        /\ returned.body.groundingTurns =
              IF run.indicator /\ run.free <= 2 THEN run.free + 1 ELSE 0

\* the mode has expired on the third message in a row without an indicator
C8_Witness ==
    /\ entry = "runEngine" /\ Answered
    /\ IndicatorRunNow = [indicator |-> TRUE, free |-> 3]
    /\ returned.body.groundingMode = FALSE
    /\ returned.body.groundingTurns = 0

-----------------------------------------------------------------------------
(* SpecRequest: one request to either handler, with the context, the       *)
(* history and the crisis rating the caller and the checker can supply.    *)

\* the longest history a request carries, in turns
MaxHistoryTurns == 4

RequestTexts ==
    {PlainText, CoreBeliefText, GroundingText, ScenarioA, ScenarioB, ScenarioC,
     ReliefInDistress, BlankText}

\* a turn of an earlier exchange, as the rows the session stores
EarlierTurn ==
    << UserRow(PlainText),
       AssistantRow(Body([NoLayers EXCEPT !.thoughtPattern = "Catastrophizing",
                                          !.reframe = RepeatingJSON.reframe,
                                          !.question = choiceQuestion],
                         FALSE, Grounding(FALSE, 0), NoProgress, NoMeta)) >>

\* the n-th earlier turn: the user rows of odd and even turns differ
EarlierTurnOf(n) ==
    IF n % 2 = 1 THEN EarlierTurn ELSE <<UserRow(GroundingText), EarlierTurn[2]>>

RECURSIVE HistoryOf(_)
HistoryOf(turns) == IF turns = 0 THEN <<>> ELSE HistoryOf(turns - 1) \o EarlierTurnOf(turns)

RequestContexts ==
    { NoContext } \cup
    { [NoContext EXCEPT !.present = TRUE, !.userIntent = i,
                        !.groundingMode = g, !.groundingTurns = IF g THEN 2 ELSE 0] :
        i \in UserIntents, g \in BOOLEAN }

InitRequest ==
    /\ entry \in Entries
    /\ pc = "received"
    /\ session = NewSession
    /\ req \in [userMessage : RequestTexts,
                conversationHistory : {HistoryOf(n) : n \in {0, 1, MaxHistoryTurns}},
                sessionContext : RequestContexts]
    /\ loc = NoLocals
    /\ calls = <<>>
    /\ returned = NoReturn
    /\ PureIdle

\* the gateway outcomes of a request: null, empty content, text without an
\* object, an object, an object with a field that is not a string; an analysis
\* result is read through its content alone, so that null and empty content
\* are one outcome there
GatewayAnalysisReplies ==
    {EmptyReply, Reply("json", AnalysisJSON),
     Reply("json", [AnalysisJSON EXCEPT !.core_wound = JsonNumber])}
GatewayResponseReplies ==
    {NullReply, TextReply, Reply("json", RepeatingJSON),
     Reply("json", [RepeatingJSON EXCEPT !.question = JsonNumber])}

NextRequest ==
    \/ HandlerStart(SEVERITY_LEVELS)
    \/ AnalysisCall(GatewayAnalysisReplies)
    \/ AnalysisRetry(GatewayAnalysisReplies)
    \/ ResponseCall(GatewayResponseReplies)
    \/ ResponseRetry(GatewayResponseReplies)
    \/ RegenerateFieldsFresh(GatewayResponseReplies)

SpecRequest == InitRequest /\ [][NextRequest]_vars

\* C1: a request whose validated message the checker rates HIGH is answered
\* with the fixed crisis payload (_isCrisisResponse true) and no gateway call,
\* in runEngine and in the POST handler, whatever the intent, the grounding
\* state of the context, the history and the text.
C1_CrisisIntercept ==
    loc.crisisLevel = "HIGH" =>
        /\ pc = "done"
        /\ returned = Returned("ok", CrisisPayload)
        /\ returned.body.isCrisisResponse
        /\ calls = <<>>

\* a message matching a core-belief pattern, rated HIGH, sent with an intent
\* other than AUTO, grounding mode on and a history, has been answered
C1_Witness ==
    /\ loc.crisisLevel = "HIGH"
    /\ pc = "done"
    /\ req.userMessage = CoreBeliefText
    /\ req.sessionContext.userIntent = "CLARITY"
    /\ req.sessionContext.groundingMode
    /\ Len(req.conversationHistory) = 2 * MaxHistoryTurns
    /\ returned.body.isCrisisResponse

\* C9: an output of runEngine whose Router decision has askQuestion = false
\* has the empty string as question and as probingQuestion.
C9_NoQuestionUnlessAsked ==
    (entry = "runEngine" /\ Answered /\ ~loc.decision.askQuestion) =>
        /\ returned.body.question = ""
        /\ returned.body.probingQuestion = ""

\* the model returned a question and the decision was not to ask one
C9_Witness ==
    /\ entry = "runEngine" /\ Answered
    /\ ~loc.decision.askQuestion
    /\ returned.body.reframe = RepeatingJSON.reframe
    /\ RepeatingJSON.question # ""
    /\ returned.body.question = ""

\* the Scenario A message, sent as the first turn without a session context
ScenarioARequest ==
    /\ req.userMessage = ScenarioA
    /\ req.conversationHistory = <<>>
    /\ ~req.sessionContext.present

\* C12: the Scenario A message sent as the first turn, with an empty history
\* and no session context, is answered with effective layer CORE_WOUND and
\* thoughtPattern 'Core Belief', by runEngine and by the POST handler alike.
C12_ScenarioA ==
    (Answered /\ ScenarioARequest) =>
        /\ returned.body.meta.effectiveLayer = "CORE_WOUND"
        /\ returned.body.thoughtPattern = "Core Belief"

\* the part of C12 that holds: the POST handler's answer
C12_ScenarioAPost ==
    (entry = "POST" /\ Answered /\ ScenarioARequest) =>
        /\ returned.body.meta.effectiveLayer = "CORE_WOUND"
        /\ returned.body.thoughtPattern = "Core Belief"

\* C14: whatever the gateway returns on the analysis, response and
\* regeneration calls (null, empty content, text without an object, an object
\* whose fields are missing or of any JSON type), a request with valid input
\* that is not a crisis ends with an output: runEngine does not throw and the
\* POST handler does not answer 500.
C14_NeverFatal ==
    (pc = "done" /\ validateThought(req.userMessage).valid /\ loc.crisisLevel # "HIGH")
        => returned.status = "ok"

\* the number of gateway calls of a phase
CallsOf(phase) == Cardinality({k \in 1..Len(calls) : calls[k].phase = phase})

\* the place of a phase in the order of the pipeline
PhaseRank(phase) ==
    CASE phase = "analysis" -> 1 [] phase = "response" -> 2 [] phase = "regenerate" -> 3

\* C15: a request makes at most 2 analysis calls, 2 response calls and 1
\* regeneration call (at most 4 calls in runEngine, 5 in the POST handler); the
\* second call of a phase follows a first call that returned null or empty
\* content; the calls are ordered: analysis, then response, then regeneration.
C15_CallBudget ==
    /\ CallsOf("analysis") <= 2
    /\ CallsOf("response") <= 2
    /\ CallsOf("regenerate") <= 1
    /\ Len(calls) <= IF entry = "runEngine" THEN 4 ELSE 5
    /\ \A k \in 2..Len(calls) :
        /\ PhaseRank(calls[k - 1].phase) <= PhaseRank(calls[k].phase)
        /\ calls[k - 1].phase = calls[k].phase
             => calls[k - 1].reply \in {"null", "empty"}

\* C15 witness: the POST handler has made five calls, both first calls of a
\* phase having brought no content, and has returned
C15_Witness ==
    /\ entry = "POST" /\ pc = "done"
    /\ Len(calls) = 5
    /\ calls[1].reply = "empty" /\ calls[3].reply = "null"
    /\ calls[5].phase = "regenerate"

\* the POST handler has ended after a regeneration call that brought no
\* parsable result
RegenerationFailed ==
    /\ entry = "POST" /\ pc = "done"
    /\ Len(calls) > 0
    /\ calls[Len(calls)].phase = "regenerate"
    /\ calls[Len(calls)].reply \in {"null", "empty", "text"}

\* the output that stands when regeneration fails: what ensureAllLayers made
\* of the response, or of an empty reply when the response calls failed
PreRegenerationOutputStands ==
    /\ returned.status = "ok"
    /\ IF loc.responseFailed
       THEN \E rnd \in Draws(NoFields) :
               returned.body = RouteFallbackOutput(EnsureWith(NoFields, rnd))
       ELSE returned.body = RouteOutput(loc.completeResponse)

\* C16: the POST handler calls regenerateFieldsFresh at most once per request;
\* when that call brings no parsable result, the handler returns the output
\* ensureAllLayers produced before the regeneration (on the failed-response
\* path, the output built from an empty model reply) and the request completes.
C16_RegenerateOnce ==
    /\ CallsOf("regenerate") <= 1
    /\ RegenerationFailed => PreRegenerationOutputStands

\* C16 for the requests whose analysis has string fields
C16_RegenerateOnceGivenStrings ==
    /\ CallsOf("regenerate") <= 1
    /\ (RegenerationFailed /\ ~EnsureThrows(loc.analysis)) => PreRegenerationOutputStands

\* runEngine has decided on a message with a thanks or relief keyword, with
\* grounding mode off after the tracker and an intent other than CALM
ReliefRequest ==
    /\ entry = "runEngine"
    /\ pc \in {"response", "responseRetry", "done"}
    /\ returned.status \in {"none", "ok", "error"}
    /\ loc.crisisLevel # "HIGH"
    /\ detectThanksOrResolution(loc.sanitizedMessage)
    /\ ~loc.groundingMode
    /\ loc.intent # "CALM"

\* C18 (Scenario B): for a message with a thanks or relief keyword, grounding
\* mode off after the tracker and an intent other than CALM, the decision of
\* runEngine is PRESENCE / VALIDATE_ONLY without a question, and the returned
\* question is the empty string whatever the model returned.
C18_ScenarioB ==
    ReliefRequest =>
        /\ loc.decision.state = "PRESENCE"
        /\ loc.decision.intervention = "VALIDATE_ONLY"
        /\ loc.decision.askQuestion = FALSE
        /\ pc = "done" =>
             /\ returned.status = "ok"
             /\ returned.body.question = ""
             /\ returned.body.probingQuestion = ""

\* C18 witness: the Scenario B message sent with intent NEXT_STEP, the model
\* answering with a question, returned without one
C18_Witness ==
    /\ ReliefRequest /\ pc = "done"
    /\ req.userMessage = ScenarioB
    /\ loc.intent = "NEXT_STEP"
    /\ calls[Len(calls)] = Call("response", Reply("json", RepeatingJSON))
    /\ returned.body.reframe = RepeatingJSON.reframe
    /\ returned.body.question = ""

\* the progress the stated formulas give for turn count n and detection d
StatedProgress(n, d) ==
    LET t == IF d THEN Max(n, 7) ELSE n
        computed == Min(30 * Max(0, t - 4), 100)
    IN  [progressScore |-> Min(12 * t, 100),
         surface |-> Min(25 * t, 100),
         trigger |-> Min(30 * Max(0, t - 1), 100),
         emotion |-> Min(35 * Max(0, t - 2), 100),
         coreBelief |-> IF d THEN Max(computed, 60) ELSE computed]

\* C19: on every return path of runEngine and of the POST handler the progress
\* fields are, for the progress turn t (turnCount, at least 7 when a core
\* belief is detected): progressScore min(12t, 100), surface min(25t, 100),
\* trigger min(30*max(0,t-1), 100), emotion min(35*max(0,t-2), 100), coreBelief
\* min(30*max(0,t-4), 100), raised to at least 60 when a core belief is detected.
C19_Progress ==
    Answered =>
        returned.body.progress =
            StatedProgress((Len(req.conversationHistory) \div 2) + 1,
                           loc.userRevealedCoreBelief)

\* C19 on the normal return path of the POST handler
C19_ProgressNormalPath ==
    (entry = "POST" /\ Answered /\ ~loc.responseFailed) =>
        returned.body.progress =
            StatedProgress((Len(req.conversationHistory) \div 2) + 1,
                           loc.userRevealedCoreBelief)

-----------------------------------------------------------------------------
\* the history messages of a call: those between the system prompt and the
\* final user message
HistoryPart(messages) == SubSeq(messages, 2, Len(messages) - 1)

\* C22: every analysis and response gateway call carries, between the system
\* prompt and the final current user message, at most the last 6 messages of
\* conversationHistory, in their original order and with their original
\* roles; no older history message is ever sent.
C22_LastSixOnly ==
    \A i \in DOMAIN calls :
        calls[i].phase \in {"analysis", "response"} =>
            LET m == calls[i].messages
                h == req.conversationHistory
                sent == HistoryPart(m)
                k == Len(sent)
            IN  /\ Len(m) >= 2
                /\ m[1].role = "system"
                /\ m[Len(m)].role = "user"
                /\ m[Len(m)].content.content = loc.sanitizedMessage
                /\ k = Min(6, Len(h))
                /\ \A j \in 1..k :
                    /\ sent[j].role = h[Len(h) - k + j].role
                    /\ sent[j].content = h[Len(h) - k + j]

\* both calls of a request with 8 history messages have been made, the
\* response call after a retry of the analysis
C22_Witness ==
    /\ Len(req.conversationHistory) = 8
    /\ Len(calls) >= 3
    /\ calls[1].phase = "analysis" /\ calls[2].phase = "analysis"
    /\ calls[Len(calls)].phase = "response"
    /\ Len(HistoryPart(calls[Len(calls)].messages)) = 6
    /\ HistoryPart(calls[Len(calls)].messages)[1].role = "user"
    /\ HistoryPart(calls[Len(calls)].messages)[1].content.content = GroundingText

-----------------------------------------------------------------------------
\* the request carries a message that the validator rejects: a blank one
RejectedRequest == trim(req.userMessage) = ""

\* C23: if validateThought rejects the user message, runEngine throws and the
\* /api/reframe POST handler answers 400 (status "invalid"), in both cases
\* before the crisis check, before any gateway call and without producing an
\* engine output.
C23_InvalidInputStops ==
    RejectedRequest =>
        /\ pc \in {"received", "done"}
        /\ calls = <<>>
        /\ loc.crisisLevel = Undefined
        /\ pc = "done" => returned = Returned("invalid", NoReturn.body)

\* a blank message has been rejected, by runEngine or by the POST handler
C23_Witness ==
    /\ req.userMessage = BlankText
    /\ pc = "done"
    /\ returned.status = "invalid"
    /\ Len(req.conversationHistory) > 0

\* the handler is at work on the request
InHandler == pc \in {"received", "analysis", "analysisRetry", "response", "responseRetry", "regenerate"}

\* C33: neither runEngine nor the /api/reframe handler modifies the
\* sessionContext or the conversationHistory its caller supplied: no step of a
\* request changes them, the step that hydrates memory from the history and
\* the regeneration step included; hydration appends to private copies only.
C33_SuppliedUnchanged == [][InHandler => req' = req]_vars

\* C33 witness: the POST handler answered after a regeneration call, the
\* questions it worked with hold more than the context supplied, and the
\* context is as supplied
C33_Witness ==
    /\ entry = "POST" /\ Answered
    /\ req.sessionContext.present
    /\ CallsOf("regenerate") = 1
    /\ Len(loc.previousQuestions) > Len(req.sessionContext.previousQuestions)
    /\ Len(loc.previousReframes) > Len(req.sessionContext.previousReframes)
    /\ req.sessionContext.previousQuestions = <<>>

-----------------------------------------------------------------------------
(* SpecRepeat: one request whose session already holds the reframe the     *)
(* model is about to return (Scenario D).                                  *)

ScenarioDReframe ==
    "The feeling is real -- but the conclusion might be harsher than the facts support."

PauseReframe ==
    "Let^s pause for a second -- this is feeling more final than it actually is."

\* a model that answers with the Scenario D reframe
ScenarioDJSON == [RepeatingJSON EXCEPT !.reframe = ScenarioDReframe]

\* an earlier exchange whose stored output carries the Scenario D reframe
ScenarioDTurn ==
    << UserRow(PlainText),
       AssistantRow(Body([NoLayers EXCEPT !.thoughtPattern = "Catastrophizing",
                                          !.reframe = ScenarioDReframe],
                         FALSE, Grounding(FALSE, 0), NoProgress, NoMeta)) >>

\* the prior reframes of the context: none, the Scenario D reframe, and the
\* Scenario D reframe after a turn that was answered with the pause reframe
RepeatContexts ==
    { [NoContext EXCEPT !.present = TRUE, !.userIntent = i, !.groundingMode = g,
                        !.groundingTurns = IF g THEN 1 ELSE 0,
                        !.previousReframes = r] :
        i \in UserIntents, g \in BOOLEAN,
        r \in {<<>>, <<ScenarioDReframe>>, <<PauseReframe, ScenarioDReframe>>} }

InitRepeat ==
    /\ entry = "POST"
    /\ pc = "received"
    /\ session = NewSession
    /\ req \in [userMessage : {PlainText, CoreBeliefText},
                conversationHistory : {<<>>, ScenarioDTurn},
                sessionContext : RepeatContexts]
    /\ loc = NoLocals
    /\ calls = <<>>
    /\ returned = NoReturn
    /\ PureIdle

RepeatAnalysisReplies == {EmptyReply, Reply("json", AnalysisJSON)}
RepeatResponseReplies == {NullReply, Reply("json", ScenarioDJSON)}

NextRepeat ==
    \/ HandlerStart(SessionLevels)
    \/ AnalysisCall(RepeatAnalysisReplies)
    \/ AnalysisRetry(RepeatAnalysisReplies)
    \/ ResponseCall(RepeatResponseReplies)
    \/ ResponseRetry(RepeatResponseReplies)
    \/ RegenerateFieldsFresh(RepeatResponseReplies)

SpecRepeat == InitRepeat /\ [][NextRepeat]_vars

\* the prior reframes of the request, those of the history included, hold the
\* Scenario D reframe, and grounding mode is off
ScenarioDRequest ==
    /\ ~loc.groundingMode
    /\ \E k \in 1..Len(loc.previousReframes) :
          normalizeForCompare(loc.previousReframes[k]) = normalizeForCompare(ScenarioDReframe)

\* a response or regeneration call brought the model's reply
ModelAnswered ==
    \E k \in 1..Len(calls) :
        calls[k].phase \in {"response", "regenerate"} /\ calls[k].reply = "json"

\* C17 (Scenario D): when the prior reframes of the session hold the Scenario D
\* reframe and the model returns it again, with grounding mode off, the POST
\* handler does not return it: the output carries the pause reframe.
C17_ScenarioD ==
    (entry = "POST" /\ Answered /\ ScenarioDRequest) =>
        /\ normalizeForCompare(returned.body.reframe) # normalizeForCompare(ScenarioDReframe)
        /\ ModelAnswered => returned.body.reframe = PauseReframe

\* C17 witness: the first response call brought the Scenario D reframe, which
\* the context lists, and the output carries the pause reframe
C17_Witness ==
    /\ entry = "POST" /\ Answered /\ ScenarioDRequest
    /\ req.sessionContext.previousReframes = <<ScenarioDReframe>>
    /\ req.conversationHistory = <<>>
    /\ calls[Len(calls)] = Call("response", Reply("json", ScenarioDJSON))
    /\ returned.body.reframe = PauseReframe

-----------------------------------------------------------------------------
(* SpecAnalysis: one request whose analysis calls bring every outcome of   *)
(* the gateway: null, empty content, prose, prose with braces, an object,  *)
(* an object inside a code fence; the response calls bring an object with  *)
(* a reframe, without one, with an empty one and with a blank one.         *)

\* the reframes ensureAllLayers falls back to below CORE_WOUND
FallbackReframes ==
    <<"The feeling is real -- but the conclusion might be harsher than the facts support.",
      "It can make emotional sense and still not be the full picture.">>

\* no context, a context of each intent, and a context whose previous
\* reframes are the fallback reframes and the pause reframe
AnalysisContexts ==
    { NoContext } \cup
    { [NoContext EXCEPT !.present = TRUE, !.userIntent = i] : i \in UserIntents } \cup
    { [NoContext EXCEPT !.present = TRUE, !.userIntent = "AUTO",
                        !.previousReframes = FallbackReframes \o <<PauseReframe>>] }

InitAnalysis ==
    /\ entry \in Entries
    /\ pc = "received"
    /\ session = NewSession
    /\ req \in [userMessage : {PlainText, CoreBeliefText},
                conversationHistory : {HistoryOf(n) : n \in {0, 1}},
                sessionContext : AnalysisContexts]
    /\ loc = NoLocals
    /\ calls = <<>>
    /\ returned = NoReturn
    /\ PureIdle

AllAnalysisReplies ==
    {NullReply, EmptyReply, TextReply, BracesReply, Reply("json", AnalysisJSON),
     Reply("fenced", AnalysisJSON)}
FewResponseReplies ==
    {NullReply, Reply("json", RepeatingJSON)} \cup
    {Reply("json", [RepeatingJSON EXCEPT !.reframe = r]) : r \in {Undefined, "", "   "}}

NextAnalysis ==
    \/ HandlerStart(SessionLevels)
    \/ AnalysisCall(AllAnalysisReplies)
    \/ AnalysisRetry(AllAnalysisReplies)
    \/ ResponseCall(FewResponseReplies)
    \/ ResponseRetry(FewResponseReplies)
    \/ RegenerateFieldsFresh(FewResponseReplies)

SpecAnalysis == InitAnalysis /\ [][NextAnalysis]_vars

\* the replies of the analysis calls made so far, in order
AnalysisRepliesSoFar ==
    LET RECURSIVE From(_)
        From(k) == IF k > Len(calls) THEN <<>>
                   ELSE IF calls[k].phase = "analysis" THEN <<calls[k].reply>> \o From(k + 1)
                   ELSE From(k + 1)
    IN  From(1)

\* both analysis calls came back null or empty
BothAnalysisCallsEmpty ==
    /\ Len(AnalysisRepliesSoFar) = 2
    /\ \A k \in 1..2 : AnalysisRepliesSoFar[k] \in {"null", "empty"}

\* the content the analysis is read from is not JSON
AnalysisUnparsable ==
    /\ Len(AnalysisRepliesSoFar) >= 1
    /\ AnalysisRepliesSoFar[Len(AnalysisRepliesSoFar)] \in {"text", "braces"}

\* the fixed neutral record, written out
NeutralAnalysis ==
    [NoFields EXCEPT !.trigger_event = "Something happened that triggered a reaction",
                     !.likely_interpretation = "This situation has meaning to them",
                     !.underlying_fear = "There's a fear underneath",
                     !.emotional_need = "Understanding"]

\* C31: when both analysis calls return null or empty content, or the content
\* returned cannot be parsed as JSON, the analysis used for the rest of the
\* request is exactly the fixed neutral record (no core_wound), and the
\* response phase still runs: the handler stands at the response call or has
\* made it.
C31_NeutralAnalysis ==
    (BothAnalysisCallsEmpty \/ AnalysisUnparsable) =>
        /\ loc.analysis = NeutralAnalysis
        /\ loc.analysis.core_wound = Undefined
        /\ pc = "response" \/ CallsOf("response") >= 1

\* C31 witness: two empty analysis results, then the response call was made
\* and the request answered on the neutral record
C31_Witness ==
    /\ BothAnalysisCallsEmpty
    /\ AnalysisRepliesSoFar = <<"null", "empty">>
    /\ CallsOf("response") >= 1
    /\ Answered
    /\ loc.analysis = NeutralAnalysis

\* prose with braces as the first analysis result: no second analysis call
C31_WitnessUnparsable ==
    /\ AnalysisRepliesSoFar = <<"braces">>
    /\ pc = "response"
    /\ loc.analysis = NeutralAnalysis

\* the POST handler stands at the regeneration call after the gate fired
AtRegenerationGate == entry = "POST" /\ pc = "regenerate" /\ ~loc.responseFailed

\* C37: every non-crisis output of the /api/reframe handler has a non-empty
\* reframe, for every model reply (a missing, an empty and a blank reframe
\* included) and every session history; hence, when the regeneration gate
\* fires, the reframe it tested is not empty: 'the reframe is empty' is never
\* the only reason.
C37_ReframeNeverEmpty ==
    /\ (entry = "POST" /\ Answered) => trim(returned.body.reframe) # ""
    /\ AtRegenerationGate => trim(loc.completeResponse.reframe) # ""

\* C37 witness: the model answered without a usable reframe, the gate fired
\* on the fallback reframe, the regeneration call brought nothing, and the
\* output carries the fallback reframe
C37_Witness ==
    /\ entry = "POST" /\ Answered
    /\ req.sessionContext.previousReframes = <<>>
    /\ req.conversationHistory = <<>>
    /\ Len(calls) >= 2
    /\ calls[Len(calls) - 1].phase = "response" /\ calls[Len(calls) - 1].reply = "json"
    /\ calls[Len(calls)].phase = "regenerate" /\ calls[Len(calls)].reply = "null"
    /\ returned.body.reframe = FallbackReframes[1]

\* every fallback reframe was given before: the output carries the pause
\* reframe, which was given before as well
C37_WitnessAllGiven ==
    /\ entry = "POST" /\ Answered
    /\ Len(req.sessionContext.previousReframes) = 3
    /\ returned.body.reframe = PauseReframe

-----------------------------------------------------------------------------
(* SpecCallAI: one invocation of callAI (lib/ai-service), with or without  *)
(* a per-call configuration, with the API keys of some providers in the    *)
(* environment, each provider call failing or answering.                   *)

MaxKeys == 3

\* the env-based fallback chain, in the order of the code
ProviderChain ==
    <<"mistral", "anthropic", "openai", "groq", "together", "openrouter", "gemini", "deepseek">>

\* the cases of the switch on config.provider
SupportedProviders == {ProviderChain[k] : k \in 1..Len(ProviderChain)}

\* if (config?.provider && config?.apiKey)
ConfigGiven(config) == Truthy(config.provider) /\ Truthy(config.apiKey)

\* the chain walked without the tests of process.env.<PROVIDER>_API_KEY
NextKeyed_noSkip(env, k) == k

RECURSIVE NextKeyed(_, _)
\* the position in the chain, from k on, of the first provider whose
\* process.env.<PROVIDER>_API_KEY is set; past the chain when there is none
NextKeyed(env, k) ==
    IF k > Len(ProviderChain) \/ ProviderChain[k] \in env THEN k ELSE NextKeyed(env, k + 1)

\* what a provider call does: it throws (fetch fails, or the answer is not
\* ok), or returns the content, which is '' when the answer holds none
ProviderOutcomes == {"throw", "content", "empty"}

\* the AIResponse a provider function returns
AIResponse(provider, outcome) ==
    [kind |-> "response", provider |-> provider,
     content |-> IF outcome = "content" THEN "text" ELSE ""]

\* callAI before its first provider call: position 0 is the configured
\* provider; an unsupported config.provider throws inside the try block and
\* falls through to the chain
CallAIStart(config, env) ==
    [next |-> IF ConfigGiven(config) /\ config.provider \in SupportedProviders
              THEN 0 ELSE NextKeyed(env, 1),
     attempts |-> <<>>,
     result |-> [kind |-> "pending", provider |-> Undefined, content |-> Undefined]]

\* one awaited provider call and the code up to the next one: return the
\* answer, or catch the error and go on to the next provider with a key
AfterProviderCall(provider, outcome, from) ==
    pout' = [next |-> IF outcome = "throw" THEN NextKeyed(pin.env, from) ELSE pout.next,
             attempts |-> Append(pout.attempts, [provider |-> provider, outcome |-> outcome]),
             result |-> IF outcome = "throw" THEN pout.result
                        ELSE AIResponse(provider, outcome)]

\* 1) explicit provider via config
CallConfigured ==
    /\ pfn = "callAI"
    /\ pout.result.kind = "pending"
    /\ pout.next = 0
    /\ \E outcome \in ProviderOutcomes : AfterProviderCall(pin.config.provider, outcome, 1)
    /\ UNCHANGED <<pfn, pin, session, entry, pc, req, loc, calls, returned>>

\* 2) env-based fallback chain
CallFromChain ==
    /\ pfn = "callAI"
    /\ pout.result.kind = "pending"
    /\ pout.next \in 1..Len(ProviderChain)
    /\ \E outcome \in ProviderOutcomes :
        AfterProviderCall(ProviderChain[pout.next], outcome, pout.next + 1)
    /\ UNCHANGED <<pfn, pin, session, entry, pc, req, loc, calls, returned>>

\* No AI provider configured or all providers failed: return null
CallAIReturnsNull ==
    /\ pfn = "callAI"
    /\ pout.result.kind = "pending"
    /\ pout.next > Len(ProviderChain)
    /\ pout' = [pout EXCEPT !.result = [kind |-> "null", provider |-> Undefined,
                                        content |-> Undefined]]
    /\ UNCHANGED <<pfn, pin, session, entry, pc, req, loc, calls, returned>>

\* the per-call configurations: none, a provider with or without apiKey, a
\* provider the switch does not know
CallConfigs ==
    {[provider |-> p, apiKey |-> k] :
        p \in {Undefined, "groq", "deepseek", "bedrock"}, k \in {Undefined, "key"}}

\* the environments: the providers whose API key is set, at most MaxKeys
CallEnvironments == {env \in SUBSET SupportedProviders : Cardinality(env) <= MaxKeys}

InitCallAI ==
    /\ pfn = "callAI"
    /\ pin \in [config : CallConfigs, env : CallEnvironments]
    /\ pout = CallAIStart(pin.config, pin.env)
    /\ SessionIdle
    /\ entry = "runEngine"

NextCallAI ==
    \/ CallConfigured
    \/ CallFromChain
    \/ CallAIReturnsNull

SpecCallAI == InitCallAI /\ [][NextCallAI]_vars

\* the providers callAI is to try, in order: the configured one when
\* provider and apiKey are given, then those of the chain that have a key
StatedOrder ==
    (IF Truthy(pin.config.provider) /\ Truthy(pin.config.apiKey)
        /\ pin.config.provider \in SupportedProviders
     THEN <<pin.config.provider>> ELSE <<>>)
    \o SelectSeq(ProviderChain, LAMBDA p : p \in pin.env)

\* C24: callAI tries providers in a fixed order -- the explicitly configured
\* provider first (when provider and apiKey are given), then Mistral,
\* Anthropic, OpenAI, Groq, Together, OpenRouter, Gemini, DeepSeek, skipping
\* those with no API key -- returns the result of the first attempt that does
\* not throw and calls no provider after it; it returns null exactly when no
\* provider is configured or every attempted provider threw, and it never
\* throws itself.
C24_ProviderOrder ==
    LET a == pout.attempts
        n == Len(a)
    IN  /\ n <= Len(StatedOrder)
        /\ \A k \in 1..n : a[k].provider = StatedOrder[k]
        /\ \A k \in 1..n : k < n => a[k].outcome = "throw"
        /\ pout.result.kind \in {"pending", "null", "response"}
        /\ pout.result.kind = "pending" => \A k \in 1..n : a[k].outcome = "throw"
        /\ pout.result.kind = "response" =>
            /\ n > 0
            /\ a[n].outcome # "throw"
            /\ pout.result = AIResponse(StatedOrder[n], a[n].outcome)
        /\ pout.result.kind = "null" =>
            /\ n = Len(StatedOrder)
            /\ \A k \in 1..n : a[k].outcome = "throw"

\* the configured provider and the first provider of the chain with a key
\* threw, the next one answered, and a later provider with a key was not called
C24_Witness ==
    /\ pin.config = [provider |-> "groq", apiKey |-> "key"]
    /\ pin.env = {"anthropic", "openai", "deepseek"}
    /\ pout.attempts = << [provider |-> "groq", outcome |-> "throw"],
                          [provider |-> "anthropic", outcome |-> "throw"],
                          [provider |-> "openai", outcome |-> "empty"] >>
    /\ pout.result = [kind |-> "response", provider |-> "openai", content |-> ""]

-----------------------------------------------------------------------------
(* SpecPure: the pure functions applied to inputs drawn from bounded sets. *)

\* the largest groundingTurns a caller sends
MaxPriorTurns == 4

SentContexts ==
    { NoContext } \cup
    { [NoContext EXCEPT !.present = TRUE, !.groundingMode = g, !.groundingTurns = t] :
        g \in BOOLEAN, t \in 0..MaxPriorTurns }

\* a message of more than 180 characters that holds "everything"
LongText ==
       "It has been one of those weeks where everything at work lands on my desk "
    \o "at the same moment, and by the time I get home I have no energy left for "
    \o "the people I care about, which is not how I want to live"

\* messages with 0 to 4 distress markers, with and without two '!' characters,
\* short and long
ArousalTexts ==
    { "My boss ignored my email", "Wait! What", "I'm scared", "I'm scared!!",
      "I'm scared and shaking", "I'm scared and shaking!!",
      "I'm scared, shaking and terrified", "I'm panicking, scared and shaking!!",
      "everything is fine", ScenarioC,
      LongText, LongText \o "!!", LongText \o ", I'm scared",
      LongText \o ", I'm scared!!" }

\* the longest history sent to the layer classifier, in rows
MaxHistoryRows == 15

LayerTexts == {PlainText, CoreBeliefText, ScenarioA, ScenarioB}

\* histories of every length, a history cut after a user row included
LayerHistories ==
    {Take(HistoryOf((MaxHistoryRows + 1) \div 2), n) : n \in 0..MaxHistoryRows}

\* the values a caller can declare as userIntent: the six intents, none,
\* null, the empty string, other strings and a number
DeclaredIntents == UserIntents \cup {Undefined, "", "calm", "PANIC", JsonNumber}

IntentContexts ==
    { NoContext } \cup { [NoContext EXCEPT !.present = TRUE, !.userIntent = i] : i \in DeclaredIntents }

\* messages that ask for calm, for a plan, or for nothing
IntentTexts == {PlainText, GroundingText, ScenarioC}

\* a text with the signals a reader finds in it: an absolutist quantifier,
\* a catastrophic word, should/must/have to, a mind-reading phrase
Case(text, absolutist, catastrophic, should, mindReading) ==
    [text |-> text, absolutist |-> absolutist, catastrophic |-> catastrophic,
     should |-> should, mindReading |-> mindReading]

\* every combination of the four signals; words that only contain a signal
\* word, capitals, and a quantifier that is also a flood indicator
DistortionCases ==
    { Case("I had a long day", 0, 0, 0, 0),
      Case("I always mess up", 1, 0, 0, 0),
      Case("This is a disaster", 0, 1, 0, 0),
      Case("I should call her", 0, 0, 1, 0),
      Case("They think I am lazy", 0, 0, 0, 1),
      Case("I always ruin it", 1, 1, 0, 0),
      Case("I must never be late", 1, 0, 1, 0),
      Case("Everyone is upset and they think I am lazy", 1, 0, 0, 1),
      Case("I have to fix this disaster", 0, 1, 1, 0),
      Case("They will think I am hopeless", 0, 1, 0, 1),
      Case("I should go or they^ll think I am rude", 0, 0, 1, 1),
      Case("I always ruin it and I must stop", 1, 1, 1, 0),
      Case("No one cares, it is pointless and they think so", 1, 1, 0, 1),
      Case("I never call and I should because they think I am rude", 1, 0, 1, 1),
      Case("I should quit, it is pointless, they think so", 0, 1, 1, 1),
      Case("Everyone will be fired, I must act, they think so too", 1, 1, 1, 1),
      Case("Nevertheless we are ruined", 0, 0, 0, 0),
      Case("NEVER. It MUST work", 1, 0, 1, 0),
      Case("Nothing I do matters, it is hopeless", 1, 1, 0, 0) }

\* a choice question in other words than the fixed one
PracticalChoice == "Do you want comfort or something practical?"

\* a question about the past, which isTherapistProbe rejects
ProbeQuestion == "When did you first feel this way?"

\* the question of the model's answer: none, an open one, a choice question,
\* a probe
ModelQuestions == {"", RepeatingJSON.question, choiceQuestion, PracticalChoice, ProbeQuestion}

\* a plain message and a flooded one
FloodedText == "I don't know, my mind is blank"
QuestionTexts == {PlainText, FloodedText}

\* sessionContext.previousQuestions, as computeSessionContext orders it
SessionQuestions ==
    { <<>>, <<RepeatingJSON.question>>, <<choiceQuestion>>, <<PracticalChoice>>,
      <<RepeatingJSON.question, choiceQuestion>>, <<choiceQuestion, RepeatingJSON.question>> }

\* the labels of the model's answer: none, labels that normalize to
\* 'Core Belief', another label
ModelLabels ==
    {Undefined, "Core Belief", "identity belief", "A core belief about worth", "catastrophizing"}
ModelTypes == {Undefined, "core belief"}

\* a plain message, an identity statement, a message with 'always' and 'ruin'
AlwaysRuinText == "I always ruin things"
LabelTexts == {PlainText, CoreBeliefText, AlwaysRuinText}

\* sessionContext.previousDistortions[0]
PreviousLabels ==
    {Undefined, "Core Belief", "core belief", "Labeling", "Catastrophizing",
     "All-or-nothing thinking"}

\* a line with what a reader finds in it: key names its normalized form
\* ("" when nothing is left of it), generic tells that the normalized form is
\* shorter than 12 characters or holds a phrase of the blacklist
Line(text, key, generic) == [text |-> text, key |-> key, generic |-> generic]

NoLine == Line("", "", TRUE)
BlankLine == Line("   ", "", TRUE)
RoughLine == Line(RepeatingJSON.reframe, "rough", FALSE)
RoughLineAgain == Line("ONE rough  meeting is a data point, not a judgment of your work.", "rough", FALSE)
ElevenLine == Line("Keep going.", "keep going.", TRUE)
TwelveLine == Line("Keep going!!", "keep going!!", FALSE)
MakesSenseLine == Line("Yeah -- that makes sense.", "yeah", TRUE)
HeavyLine == Line("Ouch. That^s heavy to carry.", "ouch", FALSE)
FriendLine == Line(RepeatingJSON.question, "friend", FALSE)
ChoiceLine == Line(choiceQuestion, "choice", FALSE)

ReframeLines ==
    {NoLine, BlankLine, RoughLine, RoughLineAgain, ElevenLine, TwelveLine, MakesSenseLine,
     HeavyLine}
QuestionLines == {NoLine, FriendLine, ChoiceLine}
EncouragementLines == {NoLine, BlankLine, ElevenLine, TwelveLine, MakesSenseLine, HeavyLine}
EarlierReframes == {<<>>, <<RoughLine>>, <<HeavyLine, TwelveLine>>}
EarlierQuestions == {<<>>, <<FriendLine>>}

\* the texts of a list of lines
TextsOf(lines) == [k \in 1..Len(lines) |-> lines[k].text]

\* a plain message, an identity statement, two messages asking for a pause
\* ('ice cream' is on the list of the POST handler only)
EntryTexts == {PlainText, CoreBeliefText, "I want ice cream", "Can we take a break"}

\* two analyses of one message, the second without or with another core wound
AnalysisPairs ==
    { <<AnalysisJSON, DefaultAnalysis>>,
      <<AnalysisJSON, [AnalysisJSON EXCEPT !.core_wound = "Being left alone"]>>,
      <<DefaultAnalysis, NoFields>> }

PureInputs ==
         [fn : {"decideEngineState"}, text : RouterTexts, intent : UserIntents,
          groundingMode : BOOLEAN]
    \cup [fn : {"isInGroundingMode", "routeIsInGroundingMode"},
          text : GroundingTexts, sessionContext : SentContexts]
    \cup [fn : {"detectHighArousal"}, text : ArousalTexts]
    \cup [fn : {"effectiveLayer"}, handler : Entries, text : LayerTexts,
          conversationHistory : LayerHistories]
    \cup [fn : {"resolveIntent"}, text : IntentTexts, sessionContext : IntentContexts]
    \cup [fn : {"detectDistortionLikelihood"}, case : DistortionCases, intent : UserIntents]
    \cup [fn : {"finalizeQuestion"}, question : ModelQuestions, effectiveLayer : Layers,
          text : QuestionTexts, previousQuestions : SessionQuestions, groundingMode : BOOLEAN]
    \cup [fn : {"thoughtPattern"}, thoughtPattern : ModelLabels, distortionType : ModelTypes,
          effectiveLayer : Layers, text : LabelTexts, previousDistortion : PreviousLabels,
          groundingMode : BOOLEAN, intent : {"AUTO", "CALM", "LISTEN"}]
    \cup [fn : {"deterministicFields"}, text : EntryTexts,
          conversationHistory : LayerHistories, sessionContext : SentContexts]
    \cup [fn : {"engineDecision"}, text : RouterTexts, intent : UserIntents,
          groundingMode : BOOLEAN, analyses : AnalysisPairs]
    \cup [fn : {"needsRegeneration"}, reframe : ReframeLines, question : QuestionLines,
          encouragement : EncouragementLines, previousReframes : EarlierReframes,
          previousQuestions : EarlierQuestions]

InitPure ==
    /\ pfn = ""
    /\ pin \in PureInputs
    /\ pout = NoResult
    /\ SessionIdle
    /\ entry = "runEngine"

ApplyDecideEngineState ==
    /\ pfn = ""
    /\ pin.fn = "decideEngineState"
    /\ pfn' = pin.fn
    /\ pout' = decideEngineState(pin.text, pin.intent, pin.groundingMode)
    /\ UNCHANGED <<pin, session, entry, pc, req, loc, calls, returned>>

ApplyIsInGroundingMode ==
    /\ pfn = ""
    /\ pin.fn = "isInGroundingMode"
    /\ pfn' = pin.fn
    /\ pout' = isInGroundingMode(pin.sessionContext, pin.text)
    /\ UNCHANGED <<pin, session, entry, pc, req, loc, calls, returned>>

ApplyRouteIsInGroundingMode ==
    /\ pfn = ""
    /\ pin.fn = "routeIsInGroundingMode"
    /\ pfn' = pin.fn
    /\ pout' = routeIsInGroundingMode(pin.sessionContext, pin.text)
    /\ UNCHANGED <<pin, session, entry, pc, req, loc, calls, returned>>

ApplyDetectHighArousal ==
    /\ pfn = ""
    /\ pin.fn = "detectHighArousal"
    /\ pfn' = pin.fn
    /\ pout' = [score |-> detectHighArousal(pin.text)]
    /\ UNCHANGED <<pin, session, entry, pc, req, loc, calls, returned>>

\* runEngine.ts 456, 486-505 and route.ts 1055, 1089-1132
ApplyEffectiveLayer ==
    /\ pfn = ""
    /\ pin.fn = "effectiveLayer"
    /\ pfn' = pin.fn
    /\ pout' =
         LET turnCount == TurnCount(pin.conversationHistory)
             revealed == IF pin.handler = "runEngine"
                         THEN userRevealedCoreBelief_t(pin.text)
                         ELSE routeUserRevealedCoreBelief_t(pin.text)
         IN  [turnCount |-> turnCount,
              userRevealedCoreBelief |-> revealed,
              effectiveLayer |-> effectiveLayerOf(revealed, turnCount)]
    /\ UNCHANGED <<pin, session, entry, pc, req, loc, calls, returned>>

\* const intent = resolveIntent(sessionContext), in a request with the message text
ApplyResolveIntent ==
    /\ pfn = ""
    /\ pin.fn = "resolveIntent"
    /\ pfn' = pin.fn
    /\ pout' = [intent |-> resolveIntent(pin.sessionContext)]
    /\ UNCHANGED <<pin, session, entry, pc, req, loc, calls, returned>>

\* detectDistortionLikelihood(userText) and the decision of the router
ApplyDetectDistortionLikelihood ==
    /\ pfn = ""
    /\ pin.fn = "detectDistortionLikelihood"
    /\ pfn' = pin.fn
    /\ pout' = [likelihood |-> detectDistortionLikelihood(pin.case.text),
                decision |-> decideEngineState(pin.case.text, pin.intent, FALSE)]
    /\ UNCHANGED <<pin, session, entry, pc, req, loc, calls, returned>>

\* route.ts 1149-1151 and the call of finalizeQuestion in ensureAllLayers
ApplyFinalizeQuestion ==
    /\ pfn = ""
    /\ pin.fn = "finalizeQuestion"
    /\ pfn' = pin.fn
    /\ pout' =
         LET lastQuestion == IF Len(pin.previousQuestions) > 0
                             THEN pin.previousQuestions[1] ELSE ""
             lastQuestionType == IF isChoiceQuestionText_t(lastQuestion) THEN "choice"
                                 ELSE IF lastQuestion # "" THEN "open" ELSE ""
         IN  [lastQuestionType |-> lastQuestionType,
              question |-> finalizeQuestion(pin.question, pin.effectiveLayer, pin.text,
                                            pin.previousQuestions, pin.groundingMode,
                                            lastQuestionType)]
    /\ UNCHANGED <<pin, session, entry, pc, req, loc, calls, returned>>

\* route.ts 1153-1156 (frozenThoughtPattern) and the thought pattern that
\* ensureAllLayers returns, which the handler returns unchanged
ApplyThoughtPattern ==
    /\ pfn = ""
    /\ pin.fn = "thoughtPattern"
    /\ pfn' = pin.fn
    /\ pout' =
         LET frozenThoughtPattern ==
                IF pin.effectiveLayer = "CORE_WOUND"
                THEN normalizeThoughtPattern(
                        IF pin.previousDistortion = Undefined THEN "Core Belief"
                        ELSE pin.previousDistortion)
                ELSE Undefined
             parsed == [NoFields EXCEPT !.thoughtPattern = pin.thoughtPattern,
                                        !.distortionType = pin.distortionType]
         IN  [thoughtPattern |->
                ThoughtPatternOf(parsed, pin.effectiveLayer, pin.text, frozenThoughtPattern,
                                 pin.previousDistortion, pin.groundingMode, pin.intent)]
    /\ UNCHANGED <<pin, session, entry, pc, req, loc, calls, returned>>

\* the fields of the output that do not depend on the gateway, on the normal
\* path of an entry point: runEngine.ts 456-505, 553-593 and route.ts
\* 1055-1132, 1285-1310
DeterministicFields(handler, text, conversationHistory, sessionContext) ==
    LET turnCount == TurnCount(conversationHistory)
        g == IF handler = "runEngine" THEN isInGroundingMode(sessionContext, text)
             ELSE routeIsInGroundingMode(sessionContext, text)
        revealed == IF handler = "runEngine" THEN userRevealedCoreBelief_t(text)
                    ELSE routeUserRevealedCoreBelief_t(text)
        effectiveLayer == effectiveLayerOf(revealed, turnCount)
        progress == IF handler = "runEngine" THEN ProgressOf(revealed, turnCount)
                    ELSE routeProgressOf(revealed, turnCount)
    IN  [effectiveLayer |-> effectiveLayer,
         icebergLayer |-> icebergLayerOf(effectiveLayer),
         groundingMode |-> g.groundingMode,
         groundingTurns |-> g.groundingTurns,
         progressScore |-> progress.progressScore,
         layerProgress |-> [surface |-> progress.surface, trigger |-> progress.trigger,
                            emotion |-> progress.emotion,
                            coreBelief |-> progress.coreBelief]]

\* one request handed to runEngine and to the POST handler
ApplyDeterministicFields ==
    /\ pfn = ""
    /\ pin.fn = "deterministicFields"
    /\ pfn' = pin.fn
    /\ pout' =
         [runEngine |-> DeterministicFields("runEngine", pin.text, pin.conversationHistory,
                                            pin.sessionContext),
          POST |-> DeterministicFields("POST", pin.text, pin.conversationHistory,
                                       pin.sessionContext)]
    /\ UNCHANGED <<pin, session, entry, pc, req, loc, calls, returned>>

\* const decision = decideEngineState(sanitizedMessage, analysis, intent,
\* groundingMode), for two analyses of the message
ApplyEngineDecision ==
    /\ pfn = ""
    /\ pin.fn = "engineDecision"
    /\ pfn' = pin.fn
    /\ pout' =
         [first |-> EngineDecision(pin.text, pin.analyses[1], pin.intent, pin.groundingMode),
          second |-> EngineDecision(pin.text, pin.analyses[2], pin.intent, pin.groundingMode)]
    /\ UNCHANGED <<pin, session, entry, pc, req, loc, calls, returned>>

\* needsRegeneration(out, previousReframes, previousQuestions)
ApplyNeedsRegeneration ==
    /\ pfn = ""
    /\ pin.fn = "needsRegeneration"
    /\ pfn' = pin.fn
    /\ pout' =
         [needs |-> needsRegeneration([reframe |-> pin.reframe.text,
                                       question |-> pin.question.text,
                                       encouragement |-> pin.encouragement.text],
                                      TextsOf(pin.previousReframes),
                                      TextsOf(pin.previousQuestions))]
    /\ UNCHANGED <<pin, session, entry, pc, req, loc, calls, returned>>

NextPure ==
    \/ ApplyDecideEngineState
    \/ ApplyIsInGroundingMode
    \/ ApplyRouteIsInGroundingMode
    \/ ApplyDetectHighArousal
    \/ ApplyEffectiveLayer
    \/ ApplyResolveIntent
    \/ ApplyDetectDistortionLikelihood
    \/ ApplyFinalizeQuestion
    \/ ApplyThoughtPattern
    \/ ApplyNeedsRegeneration
    \/ ApplyDeterministicFields
    \/ ApplyEngineDecision

SpecPure == InitPure /\ [][NextPure]_vars

-----------------------------------------------------------------------------
(* Claims about the router and the grounding tracker (SpecPure).           *)

\* the nine rules of the cascade, as predicates on the input signals
RuleMatches(k, text, intent, groundingMode) ==
    CASE k = 1 -> groundingMode \/ intent = "CALM"
      [] k = 2 -> intent = "LISTEN"
      [] k = 3 -> detectThanksOrResolution(text)
      [] k = 4 -> detectHighArousal(text) * 10 >= 6 * 60 \/ userSeemsFlooded(text)
      [] k = 5 -> intent = "NEXT_STEP" \/ detectActionRequest(text)
      [] k = 6 -> intent = "CLARITY"
      [] k = 7 -> intent = "MEANING"
      [] k = 8 -> detectDistortionLikelihood(text) * 10 >= 6 * 100
      [] OTHER -> TRUE

\* what each rule answers: state, intervention, confidence (hundredths), askQuestion
RuleAnswer ==
    << Decision("REGULATE", "GROUND", 85, FALSE),
       Decision("PRESENCE", "VALIDATE_ONLY", 85, FALSE),
       Decision("PRESENCE", "VALIDATE_ONLY", 75, FALSE),
       Decision("REGULATE", "GROUND", 80, FALSE),
       Decision("PLAN", "TINY_PLAN", 75, TRUE),
       Decision("CLARIFY", "SEPARATE_FACTS", 80, TRUE),
       Decision("MAP", "REFLECT_MAP", 75, TRUE),
       Decision("RESTRUCTURE", "CBT_REFRAME", 70, TRUE),
       Decision("MAP", "REFLECT_MAP", 65, TRUE) >>

FirstRule(text, intent, groundingMode) ==
    CHOOSE k \in 1..9 :
        /\ RuleMatches(k, text, intent, groundingMode)
        /\ \A j \in 1..(k - 1) : ~RuleMatches(j, text, intent, groundingMode)

DecideApplied == pfn = "decideEngineState"

\* C6: decideEngineState returns the answer of the first rule of the nine-rule
\* cascade that matches, with that rule's state, intervention, confidence and
\* askQuestion, for every combination of the input signals.
C6_FirstMatchWins ==
    DecideApplied =>
        pout = RuleAnswer[FirstRule(pin.text, pin.intent, pin.groundingMode)]

\* C6 witness: one applied input per rule of the cascade is told apart by the
\* rule number; this one is rule 8 reached past seven rules that do not match.
C6_Witness ==
    /\ DecideApplied
    /\ FirstRule(pin.text, pin.intent, pin.groundingMode) = 8
    /\ pout.state = "RESTRUCTURE"

\* C10: when rules 1-3 do not match and the arousal score is >= 0.6 or the text
\* is flooded, the decision is REGULATE/GROUND without a question, also with
\* intent NEXT_STEP or an action-request phrase; the Scenario C message is
\* REGULATE/GROUND whenever rules 1-3 do not match and is never PLAN/TINY_PLAN.
C10_ArousalBeforePlan ==
    DecideApplied =>
        /\ ( /\ \A j \in 1..3 : ~RuleMatches(j, pin.text, pin.intent, pin.groundingMode)
             /\ RuleMatches(4, pin.text, pin.intent, pin.groundingMode) )
           => ( /\ pout.state = "REGULATE"
                /\ pout.intervention = "GROUND"
                /\ pout.askQuestion = FALSE )
        /\ pin.text = ScenarioC =>
             /\ detectHighArousal(pin.text) * 10 >= 6 * 60
             /\ detectActionRequest(pin.text)
             /\ pout.state # "PLAN"
             /\ pout.intervention # "TINY_PLAN"
             /\ (\A j \in 1..3 : ~RuleMatches(j, pin.text, pin.intent, pin.groundingMode))
                  => pout.state = "REGULATE" /\ pout.intervention = "GROUND"

\* C10 witness: Scenario C with intent NEXT_STEP outside grounding mode, decided
\* as REGULATE/GROUND.
C10_Witness ==
    /\ DecideApplied
    /\ pin.text = ScenarioC
    /\ pin.intent = "NEXT_STEP"
    /\ ~pin.groundingMode
    /\ pout = Decision("REGULATE", "GROUND", 80, FALSE)

GroundingApplied == pfn \in {"isInGroundingMode", "routeIsInGroundingMode"}

\* the phrase list of the copy of isInGroundingMode that was applied
IndicatorsOf(fn) ==
    IF fn = "isInGroundingMode" THEN groundingIndicators ELSE routeGroundingIndicators

\* C7: with an indicator phrase in the message the result is (true, 1) whatever
\* the prior state; otherwise a prior (true, n) with n < 3 gives (true, n+1);
\* otherwise the result is (false, 0); an absent context counts as (false, 0).
C7_GroundingTransition ==
    GroundingApplied =>
        LET indicator == includesAny(trim(toLowerCase(pin.text)), IndicatorsOf(pfn))
            prior == IF pin.sessionContext.present
                     THEN <<pin.sessionContext.groundingMode,
                            pin.sessionContext.groundingTurns>>
                     ELSE <<FALSE, 0>>
        IN  <<pout.groundingMode, pout.groundingTurns>> =
                IF indicator THEN <<TRUE, 1>>
                ELSE IF prior[1] /\ prior[2] < 3 THEN <<TRUE, prior[2] + 1>>
                ELSE <<FALSE, 0>>

\* C7 witness: prior (true, 3) and a message without an indicator give (false, 0).
C7_Witness ==
    /\ GroundingApplied
    /\ pin.sessionContext.present
    /\ pin.sessionContext.groundingMode
    /\ pin.sessionContext.groundingTurns = 3
    /\ ~includesAny(trim(toLowerCase(pin.text)), IndicatorsOf(pfn))
    /\ pout = Grounding(FALSE, 0)

ArousalApplied == pfn = "detectHighArousal"

\* the score of the stated formula m/3 + 0.5*a + 0.5*b, clamped, in sixtieths
StatedArousal(text) ==
    LET s == toLowerCase(text)
        m == CountIncluded(s, arousalMarkers)
        a == IF CountChar(text, "!") >= 2 THEN 1 ELSE 0
        b == IF Len(text) > 180 /\ (includes(s, "everything") \/ includes(s, "nothing"))
             THEN 1 ELSE 0
    IN  clamp01(20 * m + 30 * a + 30 * b, 60)

\* C11: the arousal score of detectHighArousal is clamp01(m/3 + 0.5*a + 0.5*b)
\* for m matched markers, a = [at least two '!'] and b = [longer than 180
\* characters with 'everything' or 'nothing'], so that one marker plus two '!'
\* scores at least 0.6.
C11_ArousalScore ==
    ArousalApplied =>
        /\ pout.score = StatedArousal(pin.text)
        /\ pin.text = "I'm scared!!" => pout.score * 10 >= 6 * 60

\* what the code computes instead: clamp01((m + 0.5*a + 0.5*b) / 3)
C11_ScoreOfTheSum ==
    ArousalApplied =>
        LET s == toLowerCase(pin.text)
            m == CountIncluded(s, arousalMarkers)
            a == IF CountChar(pin.text, "!") >= 2 THEN 1 ELSE 0
            b == IF Len(pin.text) > 180
                    /\ (includes(s, "everything") \/ includes(s, "nothing"))
                 THEN 1 ELSE 0
        IN  pout.score = clamp01(20 * m + 10 * a + 10 * b, 60)

LayerApplied == pfn = "effectiveLayer"

\* the position of a layer in the descent from SURFACE to CORE_WOUND
LayerRank(layer) ==
    CASE layer = "SURFACE" -> 1
      [] layer = "TRANSITION" -> 2
      [] layer = "EMOTION" -> 3
      [] layer = "CORE_WOUND" -> 4

\* the layer the turn thresholds give
LayerOfTurn(t) ==
    CASE t \in 1..2 -> "SURFACE"
      [] t \in 3..4 -> "TRANSITION"
      [] t \in 5..6 -> "EMOTION"
      [] t >= 7 -> "CORE_WOUND"

\* the message matches a pattern of the applied handler's bank
LayerInputMatches ==
    MatchesAnyPattern(pin.text, IF pin.handler = "runEngine"
                                THEN coreBeliefPatterns ELSE routeCoreBeliefPatterns)

\* C13: turnCount is floor(len(history)/2) + 1; a message matching no
\* core-belief pattern gets SURFACE at turns 1-2, TRANSITION at 3-4, EMOTION at
\* 5-6 and CORE_WOUND from 7 on; a matching message gets CORE_WOUND at every
\* turn count, so the layer is never lower than the turn-based layer.
C13_LayerClassifier ==
    LayerApplied =>
        LET t == (Len(pin.conversationHistory) \div 2) + 1 IN
        /\ pout.turnCount = t
        /\ pout.effectiveLayer =
              IF LayerInputMatches THEN "CORE_WOUND" ELSE LayerOfTurn(t)
        /\ LayerRank(pout.effectiveLayer) >= LayerRank(LayerOfTurn(t))

\* C13 witness: a matching message after a history of five rows (turn 3, where
\* the thresholds give TRANSITION) is classified CORE_WOUND by the POST handler.
C13_Witness ==
    /\ LayerApplied
    /\ pin.handler = "POST"
    /\ Len(pin.conversationHistory) = 5
    /\ LayerInputMatches
    /\ pout.turnCount = 3
    /\ pout.effectiveLayer = "CORE_WOUND"

-----------------------------------------------------------------------------
(* Claims about the intent (SpecPure).                                     *)

IntentApplied == pfn = "resolveIntent"

\* C25: resolveIntent returns the client-declared sessionContext.userIntent
\* when it is one of AUTO, CALM, CLARITY, NEXT_STEP, MEANING, LISTEN, and AUTO
\* for every other value and for an absent value or absent context; the
\* message text never influences the result.
C25_ResolveIntent ==
    IntentApplied =>
        pout.intent =
            IF pin.sessionContext.present
               /\ pin.sessionContext.userIntent \in
                    {"AUTO", "CALM", "CLARITY", "NEXT_STEP", "MEANING", "LISTEN"}
            THEN pin.sessionContext.userIntent
            ELSE "AUTO"

\* a request for grounding with the declared intent "calm" resolves to AUTO
C25_Witness ==
    /\ IntentApplied
    /\ pin.text = GroundingText
    /\ pin.sessionContext.present
    /\ pin.sessionContext.userIntent = "calm"
    /\ pout.intent = "AUTO"

-----------------------------------------------------------------------------
(* Claims about the distortion likelihood (SpecPure).                      *)

DistortionApplied == pfn = "detectDistortionLikelihood"

\* the stated likelihood of a case, in hundredths
StatedLikelihood(c) ==
    Min(100, 40 * c.absolutist + 40 * c.catastrophic + 25 * c.should + 25 * c.mindReading)

\* at least one of the two 0.4-weighted signals together with at least one
\* other of the four signals
StrongAndAnother(c) ==
    /\ c.absolutist + c.catastrophic >= 1
    /\ c.absolutist + c.catastrophic + c.should + c.mindReading >= 2

\* rule 8 is reached: none of the rules 1 to 7 matches
Rule8Reached == \A k \in 1..7 : ~RuleMatches(k, pin.case.text, pin.intent, FALSE)

\* C26: the distortion likelihood computed by detectDistortionLikelihood is
\* min(1, 0.4*[absolutist quantifier] + 0.4*[catastrophic word] +
\* 0.25*[should/must/have to] + 0.25*[mind-reading phrase]); hence rule 8
\* (RESTRUCTURE/CBT_REFRAME, threshold 0.6), when it is reached, fires exactly
\* when at least one of the two 0.4-weighted signals is present together with
\* at least one other of the four signals, and never on the two 0.25-weighted
\* signals alone or on a single signal.
C26_DistortionLikelihood ==
    DistortionApplied =>
        /\ pout.likelihood = StatedLikelihood(pin.case)
        /\ Rule8Reached =>
            (pout.decision = Decision("RESTRUCTURE", "CBT_REFRAME", 70, TRUE)
                <=> StrongAndAnother(pin.case))
        /\ Rule8Reached /\ ~StrongAndAnother(pin.case) =>
            pout.decision = Decision("MAP", "REFLECT_MAP", 65, TRUE)

\* rule 8 fires on a catastrophic word with a mind-reading phrase (0.65)
C26_Witness ==
    /\ DistortionApplied
    /\ pin.intent = "AUTO"
    /\ pin.case = Case("They will think I am hopeless", 0, 1, 0, 1)
    /\ pout.likelihood = 65
    /\ pout.decision.state = "RESTRUCTURE"

\* the two 0.25-weighted signals alone leave the decision at MAP
C26_WitnessBelowThreshold ==
    /\ DistortionApplied
    /\ pin.intent = "AUTO"
    /\ pin.case.should = 1 /\ pin.case.mindReading = 1
    /\ pin.case.absolutist = 0 /\ pin.case.catastrophic = 0
    /\ pout.likelihood = 50
    /\ pout.decision.state = "MAP"

-----------------------------------------------------------------------------
(* Claims about the question (SpecPure).                                   *)

QuestionApplied == pfn = "finalizeQuestion"

\* the session's most recent prior question is a choice question, whichever
\* end of the list holds the most recent one
LastWasChoice ==
    /\ pin.previousQuestions # <<>>
    /\ isChoiceQuestionText(pin.previousQuestions[1])
    /\ isChoiceQuestionText(pin.previousQuestions[Len(pin.previousQuestions)])

\* C27: in the /api/reframe handler a choice question never directly follows
\* another choice question: whenever the session's most recent prior question
\* is a choice question, the question returned by finalizeQuestion is not a
\* choice question -- in every branch, grounding mode and the CORE_WOUND
\* branch with its fixed question for a flooded user included.
C27_NoChoiceAfterChoice ==
    QuestionApplied /\ LastWasChoice => ~isChoiceQuestionText(pout.question)

\* what does hold: outside grounding mode a choice question of the model is
\* silenced after a choice question, and below CORE_WOUND so is every question
C27_ModelChoiceSilenced ==
    QuestionApplied /\ LastWasChoice /\ ~pin.groundingMode =>
        /\ pout.lastQuestionType = "choice"
        /\ isChoiceQuestionText(pin.question) => pout.question = ""
        /\ pin.effectiveLayer # "CORE_WOUND" => ~isChoiceQuestionText(pout.question)

\* the model's question is empty, a therapist probe, or one of the previous
\* questions
NoValidQuestion ==
    \/ pin.question \in {"", ProbeQuestion}
    \/ \E k \in 1..Len(pin.previousQuestions) : pin.previousQuestions[k] = pin.question

\* the first sentence of the model's question, with its question mark
AskedAs(question) ==
    IF question = RepeatingJSON.question THEN "What would you say to a friend in your place?"
    ELSE question

\* below CORE_WOUND the question returned is the model's or none
NoSubstituteBelowCore ==
    pin.effectiveLayer # "CORE_WOUND" => pout.question \in {"", AskedAs(pin.question)}

\* C32 as stated: at CORE_WOUND outside grounding mode, when the model's
\* question is empty, a therapist probe or a duplicate, finalizeQuestion
\* returns the fixed choice question if the user text is flooded and the empty
\* string otherwise; at non-core layers no substitute question is produced.
C32_SubstituteWhenFlooded ==
    QuestionApplied =>
        /\ (pin.effectiveLayer = "CORE_WOUND" /\ ~pin.groundingMode /\ NoValidQuestion) =>
               pout.question = (IF pin.text = FloodedText THEN choiceQuestion ELSE "")
        /\ NoSubstituteBelowCore

\* the last question of the session and the model's question are both choice
\* questions
ChoiceRepeats ==
    /\ pin.previousQuestions # <<>>
    /\ pin.previousQuestions[1] \in {choiceQuestion, PracticalChoice}
    /\ pin.question \in {choiceQuestion, PracticalChoice}

\* C32 amended: at CORE_WOUND outside grounding mode, when the model's question
\* is empty, a therapist probe or a duplicate, finalizeQuestion returns the
\* empty string if the session's last question was a choice question and the
\* model's question is a choice question too; otherwise the fixed choice
\* question if the user text is flooded and the empty string if not; at
\* non-core layers no substitute question is produced.
C32_SubstituteUnlessChoiceRepeats ==
    QuestionApplied =>
        /\ (pin.effectiveLayer = "CORE_WOUND" /\ ~pin.groundingMode /\ NoValidQuestion) =>
               pout.question = (IF ChoiceRepeats THEN ""
                                ELSE IF pin.text = FloodedText THEN choiceQuestion ELSE "")
        /\ NoSubstituteBelowCore

\* C32 witness: a probe from the model, a flooded user, the fixed question
C32_Witness ==
    /\ QuestionApplied
    /\ pin.effectiveLayer = "CORE_WOUND" /\ ~pin.groundingMode
    /\ pin.question = ProbeQuestion
    /\ pin.text = FloodedText
    /\ pout.question = choiceQuestion

\* the model repeats the choice question the session asked last: silence,
\* flooded or not
C32_WitnessChoiceRepeats ==
    /\ QuestionApplied
    /\ pin.effectiveLayer = "CORE_WOUND" /\ ~pin.groundingMode
    /\ pin.question = choiceQuestion
    /\ pin.previousQuestions = <<choiceQuestion>>
    /\ pin.text = FloodedText
    /\ pout.question = ""

-----------------------------------------------------------------------------
(* Claims about the thought pattern (SpecPure).                            *)

LabelApplied == pfn = "thoughtPattern"

-----------------------------------------------------------------------------
(* Claims about the regeneration test (SpecPure).                          *)

RegenerationApplied == pfn = "needsRegeneration"

\* a line repeats, after normalization, one of the earlier lines
Repeats(line, earlier) == \E k \in 1..Len(earlier) : earlier[k].key = line.key

\* C30: needsRegeneration returns true exactly when at least one holds: the
\* non-empty question duplicates a previous question; the non-empty reframe
\* duplicates a previous reframe; the reframe is empty; the normalized reframe
\* is shorter than 12 characters or contains a blacklisted generic phrase; the
\* non-empty encouragement is shorter than 12 normalized characters or
\* contains a blacklisted generic phrase -- and false otherwise.
C30_NeedsRegeneration ==
    RegenerationApplied =>
        (pout.needs <=>
            \/ pin.question.key # "" /\ Repeats(pin.question, pin.previousQuestions)
            \/ pin.reframe.key # "" /\ Repeats(pin.reframe, pin.previousReframes)
            \/ pin.reframe.key = ""
            \/ pin.reframe.generic
            \/ pin.encouragement.key # "" /\ pin.encouragement.generic)

\* a reframe of 12 characters passes and an encouragement of 11 does not
C30_Witness ==
    /\ RegenerationApplied
    /\ pin.reframe = TwelveLine
    /\ pin.question = NoLine
    /\ pin.encouragement = ElevenLine
    /\ pin.previousReframes = <<RoughLine>>
    /\ pout.needs

\* nothing repeats and nothing is generic: no regeneration
C30_WitnessFalse ==
    /\ RegenerationApplied
    /\ pin.reframe = HeavyLine
    /\ pin.question = ChoiceLine
    /\ pin.encouragement = BlankLine
    /\ pin.previousReframes = <<RoughLine>>
    /\ pin.previousQuestions = <<FriendLine>>
    /\ ~pout.needs

-----------------------------------------------------------------------------
(* Claims about the stability of the label (SpecPure).                     *)

\* the previous label is one of the three with a trigger pattern, and the
\* text matches the pattern of that label
PreviousLabelTriggered ==
    \/ pin.previousDistortion = "Labeling" /\ pin.text = CoreBeliefText
    \/ pin.previousDistortion = "Catastrophizing" /\ pin.text = AlwaysRuinText
    \/ pin.previousDistortion = "All-or-nothing thinking" /\ pin.text = AlwaysRuinText

\* the model's answer carries no label
NoModelLabel == pin.thoughtPattern = Undefined /\ pin.distortionType = Undefined

\* C34: in the /api/reframe handler at a non-core layer with grounding off,
\* when a previous label other than 'Core Belief' exists and the text matches
\* that label's trigger pattern, the returned thoughtPattern is the previous
\* label, whatever label the model returned and even for an identity
\* statement -- except that with intent CALM or LISTEN and no label from the
\* model the returned thoughtPattern is empty.
C34_PreviousLabelReused ==
    (LabelApplied /\ pin.effectiveLayer # "CORE_WOUND" /\ ~pin.groundingMode
        /\ PreviousLabelTriggered) =>
        pout.thoughtPattern =
            (IF pin.intent \in {"CALM", "LISTEN"} /\ NoModelLabel THEN ""
             ELSE pin.previousDistortion)

\* C34 witness: the model says 'catastrophizing' of an identity statement and
\* the previous label 'Labeling' is returned
C34_Witness ==
    /\ LabelApplied
    /\ pin.effectiveLayer = "SURFACE" /\ ~pin.groundingMode /\ pin.intent = "AUTO"
    /\ pin.previousDistortion = "Labeling" /\ pin.text = CoreBeliefText
    /\ pin.thoughtPattern = "catastrophizing"
    /\ pout.thoughtPattern = "Labeling"

\* the exception: intent LISTEN, no label from the model, no label returned
C34_WitnessListen ==
    /\ LabelApplied
    /\ pin.effectiveLayer = "EMOTION" /\ ~pin.groundingMode /\ pin.intent = "LISTEN"
    /\ PreviousLabelTriggered /\ NoModelLabel
    /\ pout.thoughtPattern = ""

-----------------------------------------------------------------------------
(* Claims about the two entry points (SpecPure).                           *)

BothEntriesApplied == pfn = "deterministicFields"

\* C35: runEngine and the /api/reframe POST handler are interchangeable on the
\* deterministic fields: for the same userMessage, conversationHistory and
\* sessionContext they return the same effectiveLayer and icebergLayer, the
\* same groundingMode and groundingTurns, and the same progressScore and
\* layerProgress.
C35_Interchangeable == BothEntriesApplied => pout.runEngine = pout.POST

\* what does hold: the layer, the iceberg layer and the progress score agree
\* on these messages, and everything agrees on a message that states no core
\* belief and names no ice cream
C35_AgreeOnPlainMessages ==
    BothEntriesApplied =>
        /\ pout.runEngine.effectiveLayer = pout.POST.effectiveLayer
        /\ pout.runEngine.icebergLayer = pout.POST.icebergLayer
        /\ pout.runEngine.progressScore = pout.POST.progressScore
        /\ pin.text \in {PlainText, "Can we take a break"} => pout.runEngine = pout.POST

\* the two divergences: the core belief share of an identity statement, and
\* grounding on 'ice cream'
C35_WitnessCoreBeliefShare ==
    /\ BothEntriesApplied
    /\ pin.text = CoreBeliefText
    /\ pout.runEngine.layerProgress.coreBelief = 60
    /\ pout.POST.layerProgress.coreBelief = 90

C35_WitnessIceCream ==
    /\ BothEntriesApplied
    /\ pin.text = "I want ice cream"
    /\ pin.sessionContext = NoContext
    /\ ~pout.runEngine.groundingMode
    /\ pout.POST.groundingMode /\ pout.POST.groundingTurns = 1

-----------------------------------------------------------------------------
(* Claims about the shape of a decision (SpecPure).                        *)

EngineDecisionApplied == pfn = "engineDecision"

\* the six pairs of state and intervention
StatedPairs ==
    { <<"REGULATE", "GROUND">>, <<"PRESENCE", "VALIDATE_ONLY">>, <<"PLAN", "TINY_PLAN">>,
      <<"CLARIFY", "SEPARATE_FACTS">>, <<"MAP", "REFLECT_MAP">>,
      <<"RESTRUCTURE", "CBT_REFRAME">> }

\* a decision of the stated shape; confidences are in hundredths
WellFormed(d) ==
    /\ <<d.state, d.intervention>> \in StatedPairs
    /\ d.askQuestion <=> d.state \notin {"REGULATE", "PRESENCE"}
    /\ d.confidence \in {65, 70, 75, 80, 85}
    /\ Len(d.reasons) >= 1
    /\ \A k \in 1..Len(d.reasons) : d.reasons[k] # ""

\* C38: every decision of decideEngineState pairs state and intervention
\* one-to-one (REGULATE-GROUND, PRESENCE-VALIDATE_ONLY, PLAN-TINY_PLAN,
\* CLARIFY-SEPARATE_FACTS, MAP-REFLECT_MAP, RESTRUCTURE-CBT_REFRAME), has
\* askQuestion false exactly for REGULATE and PRESENCE, a confidence among
\* 0.65, 0.7, 0.75, 0.8 and 0.85 and a non-empty list of reasons, and depends
\* on the text, the intent and the grounding mode only: two calls that differ
\* in the analysis alone return the same decision.
C38_DecisionShape ==
    EngineDecisionApplied =>
        /\ WellFormed(pout.first)
        /\ WellFormed(pout.second)
        /\ pout.first = pout.second

\* C38 witness: with and without a core wound in the analysis the decision
\* for a plain message is MAP at 0.65, with the likelihood as its reason
C38_Witness ==
    /\ EngineDecisionApplied
    /\ pin.analyses = <<AnalysisJSON, DefaultAnalysis>>
    /\ pin.text = "My boss ignored my email" /\ pin.intent = "AUTO" /\ ~pin.groundingMode
    /\ pout.first.state = "MAP" /\ pout.first.confidence = 65
    /\ pout.first.reasons = <<"distortionLikely=0.00 -> MAP">>
    /\ pout.second = pout.first

\* the arousal rule gives two reasons
C38_WitnessTwoReasons ==
    /\ EngineDecisionApplied
    /\ pout.first.state = "REGULATE" /\ pout.first.confidence = 80
    /\ Len(pout.first.reasons) = 2
    /\ pout.first.reasons[2] = "flooded=true"

====
